---- MODULE Spec2Model ----
(***************************************************************************)
(* Board-state synchronisation of ts-task-flow: the useBoardData hook (the *)
(* Board Store), the board page's handlers (Index.tsx) and the Express /   *)
(* Prisma routes they talk to (server/src/routes/api.ts).                  *)
(*                                                                         *)
(* Every route handler is one atomic step of the server.  Every hook       *)
(* operation is split at its awaits: the call is issued, the server        *)
(* answers it, and the continuation after the await runs when the response *)
(* lands.  Responses of overlapping calls land in any order.               *)
(***************************************************************************)
EXTENDS Integers, Sequences, FiniteSets, TLC

(***************************************************************************)
(* Bounds of the model.                                                    *)
(***************************************************************************)
MaxProjects == 2
MaxNewSections == 1
MaxCards == 2
MaxComments == 1
MaxUsers == 1
MaxCalls == 2
MaxOps == 3
MaxPicks == 2
MaxViewCards == 3
MaxSessions == 2

(***************************************************************************)
(* Identifiers are opaque server-assigned strings; the n-th row of a table *)
(* gets the n-th name of the table's pool.                                 *)
(***************************************************************************)
ProjectIdPool == <<"p1", "p2", "p3", "p4">>
SectionIdPool == <<"s1", "s2", "s3", "s4", "s5", "s6", "s7", "s8", "s9", "s10", "s11", "s12", "s13", "s14", "s15", "s16">>
CardIdPool == <<"c1", "c2", "c3", "c4", "c5", "c6">>
CommentIdPool == <<"m1", "m2", "m3", "m4">>
UserIdPool == <<"u1", "u2", "u3", "u4">>

UserIds == {UserIdPool[i] : i \in 1..MaxUsers}
\* The users that sign in and send requests with their token.
Sessions == {UserIdPool[i] : i \in 1..MaxSessions}

\* select: { id: true, name: true, email: true }
UserLite(u) == [id |-> u, name |-> u, email |-> u]

\* Inputs of the gestures: the titles a user types for a new section, what
\* the card modal holds when a new card is saved and when a card is edited,
\* and the columns (by title) the user works in.
NewTitles == {"QA", "Backlog"}
NewCardDrafts == { [title |-> "T", description |-> "", priority |-> "high", executor |-> "Alice"] }
EditDrafts == { [title |-> "U", description |-> "d", priority |-> "low", executor |-> "Bob"] }
WorkTitles == {"Backlog", "To Do", "QA"}

\* orderBy: { title: 'asc' } compares the titles as strings.
TitleOrder == <<"Backlog", "Done", "QA", "Review", "To Do">>
TitleRank(t) == CHOOSE i \in 1..Len(TitleOrder) : TitleOrder[i] = t

\* Date.prototype.toISOString and new Date(isoString).
toISOString(t) == <<"iso", t>>
NewDate(s) == IF s[1] = "iso" THEN s[2] ELSE -1

Range(q) == {q[i] : i \in 1..Len(q)}

VARIABLES
  prisma,    \* the database: tables project, section, card, comment
  ids,       \* rows created so far per table
  board,     \* useBoardData: the Board Store
  loaded,    \* useBoardData: the loaded flag
  pathname,  \* window.location.pathname: the project id of /project/:projectId, or "" before the page is open
  calls,     \* hook calls in flight, in the order they were issued
  last,      \* the last thing the page did: issued a call, ignored a gesture, or saw a promise resolve or reject
  ops,       \* user gestures handled so far
  tile,      \* TaskCard: the card of a tile of the board page, the Board Store and the
             \* loaded flag of the tile's own useBoardData instance, the picker's calls so far
  filters,   \* useFilters: the filter and sort settings of the board page
  accounts,  \* the User table as the auth routes see it: email and password of every registered user
  localStorage, \* the browser's local storage: the keys auth_token, token, user, userId
  route      \* the route the router shows

vars == <<prisma, ids, board, loaded, pathname, calls, last, ops, tile, filters, accounts, localStorage, route>>

(***************************************************************************)
(* Server: routes of api.ts.  A handler maps the database and a request to *)
(* the set of its possible results [db, ids, res]; a response is           *)
(* [ok, status, kind, ...] with the JSON body in the field its kind names. *)
(***************************************************************************)
ErrorRes(status) == [ok |-> FALSE, status |-> status, kind |-> "message"]
Same(db, n, res) == {[db |-> db, ids |-> n, res |-> res]}

ProjectExists(db, projectId) == projectId \in db.project

\* findSectionById: prisma.section.findFirst({ where: { id, projectId } })
findSectionById(db, projectId, sectionId) ==
  {s \in db.section : s.id = sectionId /\ s.projectId = projectId}

CardsById(db, cardId) == {c \in db.card : c.id = cardId}
CommentsOf(db, cardIds) == {cm \in db.comment : cm.cardId \in cardIds}

RECURSIVE OrderedByTitle(_)
\* findMany({ orderBy: { title: 'asc' } }): every order of the rows in
\* which the titles ascend (rows of equal title come in either order).
OrderedByTitle(S) ==
  IF S = {} THEN {<<>>}
  ELSE UNION { {<<m>> \o q : q \in OrderedByTitle(S \ {m})} :
               m \in {x \in S : \A y \in S : TitleRank(x.title) <= TitleRank(y.title)} }

RECURSIVE OrderedByCreatedAt(_)
\* findMany({ orderBy: { createdAt: 'asc' } })
OrderedByCreatedAt(S) ==
  IF S = {} THEN {<<>>}
  ELSE UNION { {<<m>> \o q : q \in OrderedByCreatedAt(S \ {m})} :
               m \in {x \in S : \A y \in S : x.createdAt <= y.createdAt} }

CommentJson(cm) == [id |-> cm.id, text |-> cm.text, createdAt |-> toISOString(cm.createdAt)]

CommentsJson(db, cardId) ==
  CHOOSE q \in OrderedByCreatedAt(CommentsOf(db, {cardId})) : TRUE

AssigneesJson(c) == [i \in 1..Len(c.assignees) |-> UserLite(c.assignees[i])]

\* The card object the board, update and move routes answer with.
CardJson(db, c) ==
  [id |-> c.id, title |-> c.title, description |-> c.description,
   priority |-> c.priority, executor |-> c.executor,
   comments |-> [i \in 1..Len(CommentsJson(db, c.id)) |-> CommentJson(CommentsJson(db, c.id)[i])],
   createdAt |-> toISOString(c.createdAt), sectionId |-> c.sectionId,
   assignees |-> AssigneesJson(c)]

\* The card object POST .../cards answers with: no assignees field.
CreatedCardJson(c) ==
  [id |-> c.id, title |-> c.title, description |-> c.description,
   priority |-> c.priority, executor |-> c.executor, comments |-> <<>>,
   createdAt |-> toISOString(c.createdAt), sectionId |-> c.sectionId]

CardsJson(db, q) == [i \in 1..Len(q) |-> CardJson(db, q[i])]

\* POST /projects: creates the project and seeds its four sections.
SeedSections(n, projectId) ==
  { [id |-> SectionIdPool[n + 1], title |-> "Backlog", canDelete |-> FALSE, projectId |-> projectId],
    [id |-> SectionIdPool[n + 2], title |-> "To Do", canDelete |-> TRUE, projectId |-> projectId],
    [id |-> SectionIdPool[n + 3], title |-> "Review", canDelete |-> TRUE, projectId |-> projectId],
    [id |-> SectionIdPool[n + 4], title |-> "Done", canDelete |-> TRUE, projectId |-> projectId] }

PostProjects(db, n) ==
  LET projectId == ProjectIdPool[n.project + 1] IN
  { [db |-> [db EXCEPT !.project = @ \cup {projectId},
                     !.section = @ \cup SeedSections(n.section, projectId)],
     ids |-> [n EXCEPT !.project = @ + 1, !.section = @ + 4],
     res |-> [ok |-> TRUE, status |-> 201, kind |-> "project", project |-> projectId]] }

\* GET /projects/:projectId/board
GetBoard(db, n, projectId) ==
  IF ~ProjectExists(db, projectId) THEN Same(db, n, ErrorRes(404))
  ELSE
    LET cards == CHOOSE q \in OrderedByCreatedAt(
                     {c \in db.card : \E s \in db.section : s.id = c.sectionId /\ s.projectId = projectId}) : TRUE
    IN { [db |-> db, ids |-> n,
          res |-> [ok |-> TRUE, status |-> 200, kind |-> "board",
                   board |-> [id |-> projectId, title |-> projectId,
                              sections |-> [i \in 1..Len(sections) |->
                                 [id |-> sections[i].id, title |-> sections[i].title,
                                  canDelete |-> sections[i].canDelete,
                                  cards |-> CardsJson(db, SelectSeq(cards, LAMBDA c : c.sectionId = sections[i].id))]]]]]
         : sections \in OrderedByTitle({s \in db.section : s.projectId = projectId}) }

\* POST /projects/:projectId/sections
PostSection(db, n, projectId, title) ==
  IF title = "" THEN Same(db, n, ErrorRes(400))
  ELSE IF ~ProjectExists(db, projectId) THEN Same(db, n, ErrorRes(404))
  ELSE
    LET created == [id |-> SectionIdPool[n.section + 1], title |-> title, canDelete |-> TRUE, projectId |-> projectId]
    IN { [db |-> [db EXCEPT !.section = @ \cup {created}],
          ids |-> [n EXCEPT !.section = @ + 1],
          res |-> [ok |-> TRUE, status |-> 201, kind |-> "section",
                   section |-> [id |-> created.id, title |-> created.title, cards |-> <<>>, canDelete |-> created.canDelete]]] }

\* The route without its canDelete check.
DeleteSectionRoute_noCanDeleteCheck(db, n, projectId, id) ==
  LET found == findSectionById(db, projectId, id) IN
  IF found = {} THEN Same(db, n, ErrorRes(404))
  ELSE
    LET cardIds == {c.id : c \in {c \in db.card : c.sectionId = id}} IN
    { [db |-> [db EXCEPT !.comment = @ \ CommentsOf(db, cardIds),
                         !.card = {c \in @ : c.id \notin cardIds},
                         !.section = {s \in @ : s.id # id}],
       ids |-> n,
       res |-> [ok |-> TRUE, status |-> 200, kind |-> "ok"]] }

\* DELETE /projects/:projectId/sections/:id
DeleteSectionRoute(db, n, projectId, id) ==
  LET found == findSectionById(db, projectId, id) IN
  IF found = {} THEN Same(db, n, ErrorRes(404))
  ELSE IF \E s \in found : ~s.canDelete THEN Same(db, n, ErrorRes(400))
  ELSE
    LET cardIds == {c.id : c \in {c \in db.card : c.sectionId = id}} IN
    { [db |-> [db EXCEPT !.comment = @ \ CommentsOf(db, cardIds),
                         !.card = {c \in @ : c.id \notin cardIds},
                         !.section = {s \in @ : s.id # id}],
       ids |-> n,
       res |-> [ok |-> TRUE, status |-> 200, kind |-> "ok"]] }

\* The clear route that deletes the section as well.
ClearSectionRoute_deletesSection(db, n, projectId, id) ==
  LET found == findSectionById(db, projectId, id) IN
  IF found = {} THEN Same(db, n, ErrorRes(404))
  ELSE
    LET cardIds == {c.id : c \in {c \in db.card : c.sectionId = id}} IN
    { [db |-> [db EXCEPT !.comment = @ \ CommentsOf(db, cardIds),
                         !.card = {c \in @ : c.id \notin cardIds},
                         !.section = @ \ found],
       ids |-> n,
       res |-> [ok |-> TRUE, status |-> 200, kind |-> "ok"]] }

\* POST /projects/:projectId/sections/:id/clear
ClearSectionRoute(db, n, projectId, id) ==
  LET found == findSectionById(db, projectId, id) IN
  IF found = {} THEN Same(db, n, ErrorRes(404))
  ELSE
    LET cardIds == {c.id : c \in {c \in db.card : c.sectionId = id}} IN
    { [db |-> [db EXCEPT !.comment = @ \ CommentsOf(db, cardIds),
                         !.card = {c \in @ : c.id \notin cardIds}],
       ids |-> n,
       res |-> [ok |-> TRUE, status |-> 200, kind |-> "ok"]] }

\* delete-all that deletes every section but the one it found as backlog,
\* whatever its canDelete flag.
DeleteAllSectionsRoute_ignoresCanDelete(db, n, projectId) ==
  LET sections == {s \in db.section : s.projectId = projectId}
  IN
  IF ~\E s \in sections : s.title = "Backlog" THEN Same(db, n, ErrorRes(400))
  ELSE
    { LET deletable == {s.id : s \in sections \ {backlog}}
          moved == {IF c.sectionId \in deletable THEN [c EXCEPT !.sectionId = backlog.id] ELSE c : c \in db.card}
          kept == {c \in moved : c.sectionId \notin deletable}
      IN [db |-> [db EXCEPT !.card = kept,
                            !.comment = {cm \in @ : cm.cardId \in {c.id : c \in kept}},
                            !.section = {s \in @ : s.id \notin deletable}],
          ids |-> n,
          res |-> [ok |-> TRUE, status |-> 200, kind |-> "ok"]]
      : backlog \in {s \in sections : s.title = "Backlog"} }

\* POST /projects/:projectId/sections/delete-all.  sections.find takes the
\* first row titled 'Backlog' of a findMany without orderBy: any such row.
\* Card.sectionId is declared ON DELETE CASCADE (migration.sql), so the cards
\* (and their comments) of a deleted section go with it.
DeleteAllSectionsRoute(db, n, projectId) ==
  LET sections == {s \in db.section : s.projectId = projectId}
      deletable == {s.id : s \in {s \in sections : s.canDelete}}
  IN
  IF ~\E s \in sections : s.title = "Backlog" THEN Same(db, n, ErrorRes(400))
  ELSE
    { LET moved == {IF c.sectionId \in deletable THEN [c EXCEPT !.sectionId = backlog.id] ELSE c : c \in db.card}
          kept == {c \in moved : c.sectionId \notin deletable}
      IN [db |-> [db EXCEPT !.card = kept,
                            !.comment = {cm \in @ : cm.cardId \in {c.id : c \in kept}},
                            !.section = {s \in @ : s.id \notin deletable}],
          ids |-> n,
          res |-> [ok |-> TRUE, status |-> 200, kind |-> "ok"]]
      : backlog \in {s \in sections : s.title = "Backlog"} }

\* The route creating every card with priority 'normal'.
PostCard_normalPriority(db, n, projectId, sectionId, draft) ==
  IF draft.title = "" THEN Same(db, n, ErrorRes(400))
  ELSE IF findSectionById(db, projectId, sectionId) = {} THEN Same(db, n, ErrorRes(404))
  ELSE
    LET created == [id |-> CardIdPool[n.card + 1], title |-> draft.title,
                    description |-> draft.description, priority |-> "normal",
                    executor |-> draft.executor, createdAt |-> n.card + n.comment + 1,
                    sectionId |-> sectionId, assignees |-> <<>>]
    IN { [db |-> [db EXCEPT !.card = @ \cup {created}],
          ids |-> [n EXCEPT !.card = @ + 1],
          res |-> [ok |-> TRUE, status |-> 201, kind |-> "created", card |-> CreatedCardJson(created)]] }

\* POST /projects/:projectId/sections/:sectionId/cards
PostCard(db, n, projectId, sectionId, draft) ==
  IF draft.title = "" THEN Same(db, n, ErrorRes(400))
  ELSE IF findSectionById(db, projectId, sectionId) = {} THEN Same(db, n, ErrorRes(404))
  ELSE
    LET created == [id |-> CardIdPool[n.card + 1], title |-> draft.title,
                    description |-> draft.description, priority |-> draft.priority,
                    executor |-> draft.executor, createdAt |-> n.card + n.comment + 1,
                    sectionId |-> sectionId, assignees |-> <<>>]
    IN { [db |-> [db EXCEPT !.card = @ \cup {created}],
          ids |-> [n EXCEPT !.card = @ + 1],
          res |-> [ok |-> TRUE, status |-> 201, kind |-> "created", card |-> CreatedCardJson(created)]] }

\* PUT /projects/:projectId/cards/:cardId
PutCard(db, n, projectId, cardId, body) ==
  IF body.title = "" THEN Same(db, n, ErrorRes(400))
  ELSE IF body.sectionId # "" /\ findSectionById(db, projectId, body.sectionId) = {} THEN Same(db, n, ErrorRes(400))
  ELSE IF CardsById(db, cardId) = {} \/ body.sectionId = "" THEN Same(db, n, ErrorRes(404))
  ELSE
    LET old == CHOOSE c \in db.card : c.id = cardId
        updated == [old EXCEPT !.title = body.title, !.description = body.description,
                               !.priority = body.priority, !.executor = body.executor,
                               !.sectionId = body.sectionId]
        db2 == [db EXCEPT !.card = (@ \ {old}) \cup {updated}]
    IN { [db |-> db2, ids |-> n,
          res |-> [ok |-> TRUE, status |-> 200, kind |-> "card", card |-> CardJson(db2, updated)]] }

\* The card delete that leaves the comments of the card behind.
DeleteCardRoute_keepsComments(db, n, projectId, cardId) ==
  IF CardsById(db, cardId) = {} THEN Same(db, n, ErrorRes(404))
  ELSE { [db |-> [db EXCEPT !.card = @ \ CardsById(db, cardId)],
          ids |-> n,
          res |-> [ok |-> TRUE, status |-> 200, kind |-> "ok"]] }

\* DELETE /projects/:projectId/cards/:cardId
DeleteCardRoute(db, n, projectId, cardId) ==
  IF CardsById(db, cardId) = {} THEN Same(db, n, ErrorRes(404))
  ELSE { [db |-> [db EXCEPT !.comment = @ \ CommentsOf(db, {cardId}),
                            !.card = @ \ CardsById(db, cardId)],
          ids |-> n,
          res |-> [ok |-> TRUE, status |-> 200, kind |-> "ok"]] }

\* POST /projects/:projectId/cards/:cardId/move
MoveCardRoute(db, n, projectId, cardId, targetSectionId) ==
  IF targetSectionId = "" THEN Same(db, n, ErrorRes(400))
  ELSE IF findSectionById(db, projectId, targetSectionId) = {} THEN Same(db, n, ErrorRes(400))
  ELSE IF CardsById(db, cardId) = {} THEN Same(db, n, ErrorRes(404))
  ELSE
    LET old == CHOOSE c \in db.card : c.id = cardId
        moved == [old EXCEPT !.sectionId = targetSectionId]
        db2 == [db EXCEPT !.card = (@ \ {old}) \cup {moved}]
    IN { [db |-> db2, ids |-> n,
          res |-> [ok |-> TRUE, status |-> 200, kind |-> "card", card |-> CardJson(db2, moved)]] }

\* prisma.card.findFirst({ where: { id: cardId, section: { projectId } } })
CardInProject(db, projectId, cardId) ==
  {c \in db.card : c.id = cardId /\ \E s \in db.section : s.id = c.sectionId /\ s.projectId = projectId}

\* The route connecting the user without looking whether it is connected.
PostAssignee_connectsAgain(db, n, projectId, cardId, userId) ==
  IF userId = "" THEN Same(db, n, ErrorRes(400))
  ELSE IF CardInProject(db, projectId, cardId) = {} THEN Same(db, n, ErrorRes(404))
  ELSE IF userId \notin UserIds THEN Same(db, n, ErrorRes(500))
  ELSE
    LET old == CHOOSE c \in db.card : c.id = cardId
        updated == [old EXCEPT !.assignees = Append(@, userId)]
    IN { [db |-> [db EXCEPT !.card = (@ \ {old}) \cup {updated}], ids |-> n,
          res |-> [ok |-> TRUE, status |-> 201, kind |-> "assignees", assignees |-> AssigneesJson(updated)]] }

\* POST /projects/:projectId/cards/:cardId/assignees
PostAssignee(db, n, projectId, cardId, userId) ==
  IF userId = "" THEN Same(db, n, ErrorRes(400))
  ELSE IF CardInProject(db, projectId, cardId) = {} THEN Same(db, n, ErrorRes(404))
  ELSE IF userId \notin UserIds THEN Same(db, n, ErrorRes(500))
  ELSE
    LET old == CHOOSE c \in db.card : c.id = cardId
        updated == [old EXCEPT !.assignees = IF userId \in Range(@) THEN @ ELSE Append(@, userId)]
    IN { [db |-> [db EXCEPT !.card = (@ \ {old}) \cup {updated}], ids |-> n,
          res |-> [ok |-> TRUE, status |-> 201, kind |-> "assignees", assignees |-> AssigneesJson(updated)]] }

\* DELETE /projects/:projectId/cards/:cardId/assignees/:userId
DeleteAssignee(db, n, projectId, cardId, userId) ==
  IF CardInProject(db, projectId, cardId) = {} THEN Same(db, n, ErrorRes(404))
  ELSE IF userId \notin UserIds THEN Same(db, n, ErrorRes(500))
  ELSE
    LET old == CHOOSE c \in db.card : c.id = cardId
        updated == [old EXCEPT !.assignees = SelectSeq(@, LAMBDA u : u # userId)]
    IN { [db |-> [db EXCEPT !.card = (@ \ {old}) \cup {updated}], ids |-> n,
          res |-> [ok |-> TRUE, status |-> 200, kind |-> "assignees", assignees |-> AssigneesJson(updated)]] }

\* POST /projects/:projectId/cards/:cardId/comments (authenticated as userId)
PostComment(db, n, projectId, cardId, userId, text) ==
  IF text = "" THEN Same(db, n, ErrorRes(400))
  ELSE IF CardInProject(db, projectId, cardId) = {} THEN Same(db, n, ErrorRes(404))
  ELSE
    LET created == [id |-> CommentIdPool[n.comment + 1], text |-> text,
                    createdAt |-> n.card + n.comment + 1, cardId |-> cardId, authorId |-> userId]
    IN { [db |-> [db EXCEPT !.comment = @ \cup {created}],
          ids |-> [n EXCEPT !.comment = @ + 1],
          res |-> [ok |-> TRUE, status |-> 201, kind |-> "comment", comment |-> CommentJson(created)]] }

\* The project of the card a comment belongs to (comment.card.section.projectId).
CommentProject(db, cm) ==
  {s.projectId : s \in {s \in db.section : \E c \in db.card : c.id = cm.cardId /\ c.sectionId = s.id}}

\* PUT .../comments/:commentId without the ownership check.
PutComment_noOwnerCheck(db, n, projectId, commentId, userId, text) ==
  IF userId = "" THEN Same(db, n, ErrorRes(401))
  ELSE IF text = "" THEN Same(db, n, ErrorRes(400))
  ELSE IF ~\E cm \in db.comment : cm.id = commentId /\ projectId \in CommentProject(db, cm)
       THEN Same(db, n, ErrorRes(404))
  ELSE
    LET comment == CHOOSE cm \in db.comment : cm.id = commentId
        updated == [comment EXCEPT !.text = text]
    IN { [db |-> [db EXCEPT !.comment = (@ \ {comment}) \cup {updated}], ids |-> n,
          res |-> [ok |-> TRUE, status |-> 200, kind |-> "comment", comment |-> CommentJson(updated)]] }

\* PUT /projects/:projectId/comments/:commentId (authenticated as userId;
\* no token gives 401 in authMiddleware)
PutComment(db, n, projectId, commentId, userId, text) ==
  IF userId = "" THEN Same(db, n, ErrorRes(401))
  ELSE IF text = "" THEN Same(db, n, ErrorRes(400))
  ELSE IF ~\E cm \in db.comment : cm.id = commentId /\ projectId \in CommentProject(db, cm)
       THEN Same(db, n, ErrorRes(404))
  ELSE
    LET comment == CHOOSE cm \in db.comment : cm.id = commentId
        updated == [comment EXCEPT !.text = text]
    IN IF comment.authorId # userId THEN Same(db, n, ErrorRes(403))
       ELSE { [db |-> [db EXCEPT !.comment = (@ \ {comment}) \cup {updated}], ids |-> n,
               res |-> [ok |-> TRUE, status |-> 200, kind |-> "comment", comment |-> CommentJson(updated)]] }

\* DELETE /projects/:projectId/comments/:commentId (authenticated as userId)
DeleteCommentRoute(db, n, projectId, commentId, userId) ==
  IF userId = "" THEN Same(db, n, ErrorRes(401))
  ELSE IF ~\E cm \in db.comment : cm.id = commentId /\ projectId \in CommentProject(db, cm)
       THEN Same(db, n, ErrorRes(404))
  ELSE
    LET comment == CHOOSE cm \in db.comment : cm.id = commentId
    IN IF comment.authorId # userId THEN Same(db, n, ErrorRes(403))
       ELSE { [db |-> [db EXCEPT !.comment = @ \ {comment}], ids |-> n,
               res |-> [ok |-> TRUE, status |-> 200, kind |-> "ok"]] }

(***************************************************************************)
(* Client: useBoardData.  A call in flight is                              *)
(* [op, projectId, a, b, payload, origin, stage, answered, res]: a and b   *)
(* are the string arguments of the operation, payload the card fields it   *)
(* sends, stage 1 the operation's own request and stage 2 the board        *)
(* refetch that follows it, origin "page" when a handler of the board page *)
(* issued it, "hook" when the page's hook was called directly and "tile"   *)
(* when the hook instance of a card tile issued it.                        *)
(***************************************************************************)
NoPayload == [title |-> "", description |-> "", priority |-> "", executor |-> "", sectionId |-> ""]
\* JSON.stringify({ title, description, priority, executor[, sectionId] })
Payload(card, sectionId) ==
  [title |-> card.title, description |-> card.description, priority |-> card.priority,
   executor |-> card.executor, sectionId |-> sectionId]
NoRes == [ok |-> FALSE, status |-> 0, kind |-> "none"]
\* fetch rejected: the request or its response was lost.
Threw == [ok |-> FALSE, status |-> 0, kind |-> "threw"]

Call(op, projectId, a, b, payload, origin) ==
  [op |-> op, projectId |-> projectId, a |-> a, b |-> b, payload |-> payload,
   origin |-> origin, stage |-> 1, answered |-> FALSE, res |-> NoRes]

\* useState<Board>(...): the default skeleton.
DefaultBoard ==
  [id |-> "main-board", title |-> "",
   sections |-> << [id |-> "backlog", title |-> "Backlog", cards |-> <<>>, canDelete |-> FALSE],
                   [id |-> "todo", title |-> "To Do", cards |-> <<>>, canDelete |-> TRUE],
                   [id |-> "review", title |-> "Review", cards |-> <<>>, canDelete |-> TRUE],
                   [id |-> "done", title |-> "Done", cards |-> <<>>, canDelete |-> TRUE] >>]

\* getProjectId
getProjectId == IF pathname = "" THEN "default" ELSE pathname

ReviveComments(q) == [i \in 1..Len(q) |-> [q[i] EXCEPT !.createdAt = NewDate(@)]]
ReviveCard(c) == [c EXCEPT !.createdAt = NewDate(@), !.comments = ReviveComments(@)]

\* reviveBoardDates
reviveBoardDates(b) ==
  [b EXCEPT !.sections = [i \in 1..Len(@) |->
     [@[i] EXCEPT !.cards = [j \in 1..Len(@) |-> ReviveCard(@[j])]]]]

\* What the continuation of a hook operation yields: the next Board Store and
\* whether the promise resolved, rejected, or goes on to the refetch.
Resolved(b) == [board |-> b, outcome |-> "resolved"]
Rejected(b) == [board |-> b, outcome |-> "rejected"]
Refetch(b) == [board |-> b, outcome |-> "refetch"]

\* prev.sections.map(s => ({ ...s, cards: s.cards.filter(c => c.id !== cardId) }))
WithoutCardAnywhere(prev, cardId) ==
  [prev EXCEPT !.sections = [i \in 1..Len(@) |-> [@[i] EXCEPT !.cards = SelectSeq(@, LAMBDA c : c.id # cardId)]]]
\* { ...c, assignees }
WithAssignees(c, assignees) ==
  [f \in DOMAIN c \cup {"assignees"} |-> IF f = "assignees" THEN assignees ELSE c[f]]

\* The load effect storing the body of whatever response it got.
load_storesAnyBody(prev, res) ==
  IF res.kind = "board" THEN reviveBoardDates(res.board)
  ELSE [id |-> "", title |-> "", sections |-> <<>>]

\* useEffect load: lines after the await of the board fetch.  The body of an
\* error response has no sections: reviveBoardDates throws, the catch logs.
load(prev, res) ==
  IF res.kind = "board" THEN reviveBoardDates(res.board) ELSE prev

addSection(prev, res) ==
  IF ~res.ok THEN Rejected(prev)
  ELSE Resolved([prev EXCEPT !.sections = Append(@, res.section)])

\* The three operations that refetch the board after their own request.
RefetchBoard(prev, stage, res) ==
  IF stage = 1 THEN (IF ~res.ok THEN Rejected(prev) ELSE Refetch(prev))
  ELSE IF res.kind = "board" THEN Resolved(reviveBoardDates(res.board))
  ELSE Rejected(prev)

deleteSection(prev, stage, res) == RefetchBoard(prev, stage, res)
clearSection(prev, stage, res) == RefetchBoard(prev, stage, res)
deleteAllSections(prev, stage, res) == RefetchBoard(prev, stage, res)

\* The merge that writes the list into every card of the store.
SetAssignees_everyCard(prev, cardId, assignees) ==
  [prev EXCEPT !.sections = [i \in 1..Len(@) |->
     [@[i] EXCEPT !.cards = [j \in 1..Len(@) |-> WithAssignees(@[j], assignees)]]]]

SetAssignees(prev, cardId, assignees) ==
  [prev EXCEPT !.sections = [i \in 1..Len(@) |->
     [@[i] EXCEPT !.cards = [j \in 1..Len(@) |->
        IF @[j].id = cardId THEN WithAssignees(@[j], assignees) ELSE @[j]]]]]

assignUser(prev, cardId, res) ==
  IF ~res.ok THEN Rejected(prev) ELSE Resolved(SetAssignees(prev, cardId, res.assignees))

unassignUser(prev, cardId, res) ==
  IF ~res.ok THEN Rejected(prev) ELSE Resolved(SetAssignees(prev, cardId, res.assignees))

\* addCard that appends the card object of the caller (CardModal's
\* `card-${Date.now()}` draft) instead of the created one.
addCard_appendsDraft(prev, sectionId, res) ==
  IF ~res.ok THEN Rejected(prev)
  ELSE Resolved([prev EXCEPT !.sections = [i \in 1..Len(@) |->
         IF @[i].id = sectionId
         THEN [@[i] EXCEPT !.cards = Append(@, [res.card EXCEPT !.id = "card-local", !.createdAt = NewDate(@), !.comments = <<>>])]
         ELSE @[i]]])

addCard(prev, sectionId, res) ==
  IF ~res.ok THEN Rejected(prev)
  ELSE Resolved([prev EXCEPT !.sections = [i \in 1..Len(@) |->
         IF @[i].id = sectionId
         THEN [@[i] EXCEPT !.cards = Append(@, [res.card EXCEPT !.createdAt = NewDate(@), !.comments = <<>>])]
         ELSE @[i]]])

updateCard(prev, cardId, res) ==
  IF ~res.ok THEN Rejected(prev)
  ELSE Resolved([prev EXCEPT !.sections = [i \in 1..Len(@) |->
         [@[i] EXCEPT !.cards = [j \in 1..Len(@) |->
            IF @[j].id = cardId THEN ReviveCard(res.card) ELSE @[j]]]]])

\* deleteCard without the res.ok check.
deleteCard_noOkCheck(prev, cardId, res) ==
  Resolved(WithoutCardAnywhere(prev, cardId))

deleteCard(prev, cardId, res) ==
  IF ~res.ok THEN Rejected(prev)
  ELSE Resolved(WithoutCardAnywhere(prev, cardId))

\* moveCard that appends to the target without removing the card from the
\* section that holds it.
moveCard_keepsSource(prev, cardId, targetSectionId, res) ==
  IF ~res.ok THEN Rejected(prev)
  ELSE Resolved([prev EXCEPT !.sections = [i \in 1..Len(@) |->
         IF @[i].id = targetSectionId
         THEN [@[i] EXCEPT !.cards = Append(SelectSeq(@, LAMBDA c : c.id # cardId), ReviveCard(res.card))]
         ELSE @[i]]])

\* moveCard that puts the card in front of the target's cards.
moveCard_prepends(prev, cardId, targetSectionId, res) ==
  IF ~res.ok THEN Rejected(prev)
  ELSE LET without == WithoutCardAnywhere(prev, cardId)
       IN Resolved([without EXCEPT !.sections = [i \in 1..Len(@) |->
            IF @[i].id = targetSectionId
            THEN [@[i] EXCEPT !.cards = <<ReviveCard(res.card)>> \o @]
            ELSE @[i]]])

moveCard(prev, cardId, targetSectionId, res) ==
  IF ~res.ok THEN Rejected(prev)
  ELSE LET without == WithoutCardAnywhere(prev, cardId)
       IN Resolved([without EXCEPT !.sections = [i \in 1..Len(@) |->
            IF @[i].id = targetSectionId
            THEN [@[i] EXCEPT !.cards = Append(@, ReviveCard(res.card))]
            ELSE @[i]]])

(***************************************************************************)
(* State the handlers read.                                                *)
(***************************************************************************)
StoreCardsOf(b) == UNION {Range(b.sections[i].cards) : i \in 1..Len(b.sections)}
StoreSectionIds == {board.sections[i].id : i \in 1..Len(board.sections)}
StoreCards == UNION {Range(board.sections[i].cards) : i \in 1..Len(board.sections)}
StoreCardIds == {c.id : c \in StoreCards}

\* Array.prototype.find: the first element of q among the positions that
\* satisfy the test, as a set of at most one element.
FindFirst(q, hits) ==
  IF hits = {} THEN {} ELSE {q[CHOOSE i \in hits : \A j \in hits : i <= j]}
\* The positions of the sections that hold card cardId, and of those with id sectionId.
Holding(b, cardId) == {i \in 1..Len(b.sections) : \E c \in Range(b.sections[i].cards) : c.id = cardId}
WithId(b, sectionId) == {i \in 1..Len(b.sections) : b.sections[i].id = sectionId}

\* The sections of the Board Store the user's gestures address.
WorkSectionIds == {s.id : s \in {s \in Range(board.sections) : s.title \in WorkTitles}}

\* toast is the title of the notification shown with the event, "" for none.
Event(ev, op, a, b) == [ev |-> ev, op |-> op, a |-> a, b |-> b, toast |-> ""]

\* The toast a handler of the board page shows after calling the hook.
SuccessToast(op) ==
  IF op = "moveCard" THEN "Card moved"
  ELSE IF op = "updateCard" THEN "Card updated"
  ELSE IF op = "addCard" THEN "Card created"
  ELSE IF op = "deleteCard" THEN "Card deleted"
  ELSE IF op = "addSection" THEN "Section created"
  ELSE IF op = "deleteSection" THEN "Section deleted"
  ELSE IF op = "clearSection" THEN "Section cleared"
  ELSE "All sections deleted"

\* The toast TaskCard shows when the awaited assignUser or unassignUser has
\* settled.
TaskCardToast(op, outcome) ==
  IF outcome # "resolved" THEN "Assignment failed"
  ELSE IF op = "assignUser" THEN "User assigned" ELSE "User unassigned"
RemoveAt(q, i) == SubSeq(q, 1, i - 1) \o SubSeq(q, i + 1, Len(q))

PageOpen == pathname # ""
CanStart == PageOpen /\ ops < MaxOps /\ Len(calls) < MaxCalls

Unanswered(op) == Cardinality({i \in 1..Len(calls) : calls[i].op = op /\ calls[i].stage = 1 /\ ~calls[i].answered})

\* An await fetch(...) of a hook operation: the call is now in flight.
Issue(op, a, b, payload, origin) ==
  /\ calls' = Append(calls, Call(op, getProjectId, a, b, payload, origin))
  /\ last' = [Event("issued", op, "", "") EXCEPT !.toast = IF origin = "page" THEN SuccessToast(op) ELSE ""]
  /\ ops' = ops + 1
  /\ UNCHANGED <<accounts, localStorage, route, filters, tile, prisma, ids, board, loaded, pathname>>

\* A handler that returns without calling the hook.
Ignore(handler, a, b) ==
  /\ last' = Event("ignored", handler, a, b)
  /\ ops' = ops + 1
  /\ UNCHANGED <<accounts, localStorage, route, filters, tile, prisma, ids, board, loaded, pathname, calls>>

\* An empty local storage ("" stands for a key that is not set), and the
\* accounts of the users that signed up before the run.
NoStorage == [auth_token |-> "", token |-> "", user |-> "", userId |-> ""]
Account(u) == [email |-> u, password |-> "secret-" \o u]
SignedUp == {Account(u) : u \in Sessions}

\* useFilters: useState<FilterState>(...); the arrays are read only through
\* length and includes, so they are sets here.
NoFilters == [priorities |-> {}, executors |-> {}, multiFilter |-> FALSE, sortBy |-> "date"]

\* No card tile is mounted: its hook instance would start like the page's.
\* TaskCard: useState(false) for open, useState(null) for busy ("" here).
NoTile == [card |-> "", board |-> DefaultBoard, loaded |-> FALSE, picks |-> <<>>,
           open |-> FALSE, busy |-> ""]

Init ==
  /\ prisma = [project |-> {}, section |-> {}, card |-> {}, comment |-> {}]
  /\ ids = [project |-> 0, section |-> 0, card |-> 0, comment |-> 0]
  /\ board = DefaultBoard
  /\ loaded = FALSE
  /\ pathname = ""
  /\ calls = <<>>
  /\ last = Event("none", "", "", "")
  /\ ops = 0
  /\ tile = NoTile
  /\ filters = NoFilters
  /\ accounts = SignedUp
  /\ localStorage = NoStorage
  /\ route = "/"

(***************************************************************************)
(* Boards page and navigation.                                             *)
(***************************************************************************)
\* Boards.tsx createBoard: POST /projects, made from the Boards page (before
\* the board page is open).
CreateProject ==
  /\ pathname = ""
  /\ ids.project < MaxProjects
  /\ \E out \in PostProjects(prisma, ids) : prisma' = out.db /\ ids' = out.ids
  /\ UNCHANGED <<accounts, localStorage, route, filters, tile, board, loaded, pathname, calls, last, ops>>

\* The board page opens on /project/:projectId (a listed project, or the
\* Home page's link to /project/default); the mount effect starts the load.
OpenProject(projectId) ==
  /\ pathname = ""
  /\ projectId \in prisma.project \cup {"default"}
  /\ pathname' = projectId
  /\ calls' = Append(calls, Call("load", projectId, "", "", NoPayload, "hook"))
  /\ UNCHANGED <<accounts, localStorage, route, filters, tile, prisma, ids, board, loaded, last, ops>>

\* The router goes from /project/A to /project/B with the board page mounted
\* (same route, same element): window.location.pathname changes and the load
\* effect of every mounted hook instance runs again.  Neither board nor
\* loaded is reset, and the earlier fetches are not cancelled.
SwitchProject(projectId) ==
  /\ CanStart
  /\ projectId # pathname
  /\ projectId \in prisma.project \cup {"default"}
  /\ Len(calls) + (IF tile.card = "" THEN 1 ELSE 2) <= MaxCalls
  /\ pathname' = projectId
  /\ calls' = calls \o <<Call("load", projectId, "", "", NoPayload, "hook")>>
                    \o (IF tile.card = "" THEN <<>> ELSE <<Call("load", projectId, "", "", NoPayload, "tile")>>)
  /\ last' = Event("switched", "load", "", "")
  /\ ops' = ops + 1
  /\ UNCHANGED <<accounts, localStorage, route, filters, prisma, ids, board, loaded, tile>>

(***************************************************************************)
(* Index.tsx: the handlers of the board page.                              *)
(***************************************************************************)
\* handleDragEnd that takes the id under the drop point for a section id
\* without looking it up.
DragEndCalls_anyTarget(b, active, over) ==
  LET currentSection == FindFirst(b.sections, Holding(b, active))
  IN IF over = "" THEN {}
     ELSE IF {over} = {s.id : s \in currentSection} THEN {}
     ELSE {<<active, over>>}

\* handleDragEnd that moves the card to the first section other than the
\* one that holds it.
DragEndCalls_firstOther(b, active, over) ==
  LET currentSection == FindFirst(b.sections, Holding(b, active))
      targetSection == FindFirst(b.sections, WithId(b, over))
      others == {i \in 1..Len(b.sections) : b.sections[i].id \notin {s.id : s \in currentSection}}
  IN IF over = "" THEN {}
     ELSE IF targetSection = {} \/ {s.id : s \in targetSection} = {s.id : s \in currentSection} THEN {}
     ELSE {<<active, t.id>> : t \in FindFirst(b.sections, others)}

\* handleDragEnd up to its decision: the moveCard calls it makes, as a set of
\* <<cardId, targetSectionId>> (empty when it returns early).  over = "" is a
\* drag that ended over nothing.
DragEndCalls(b, active, over) ==
  LET currentSection == FindFirst(b.sections, Holding(b, active))
      targetSection == FindFirst(b.sections, WithId(b, over))
  IN IF over = "" THEN {}
     ELSE IF targetSection = {} \/ {s.id : s \in targetSection} = {s.id : s \in currentSection} THEN {}
     ELSE {<<active, t.id>> : t \in targetSection}

handleDragEnd(active, over) ==
  /\ CanStart
  /\ active \in StoreCardIds
  /\ over \in {""} \cup WorkSectionIds \cup StoreCardIds
  /\ IF DragEndCalls(board, active, over) = {}
     THEN Ignore("handleDragEnd", active, over)
     ELSE \E m \in DragEndCalls(board, active, over) : Issue("moveCard", m[1], m[2], NoPayload, "page")

handleCardSaveNew(newCardSectionId, draft) ==
  /\ CanStart
  /\ newCardSectionId \in WorkSectionIds
  /\ draft \in NewCardDrafts
  /\ ids.card + Unanswered("addCard") < MaxCards
  /\ Issue("addCard", newCardSectionId, "", Payload(draft, ""), "page")

handleCardSaveExisting(selectedCard, draft) ==
  /\ CanStart
  /\ selectedCard \in StoreCards
  /\ draft \in EditDrafts
  /\ Issue("updateCard", selectedCard.id, "",
           Payload(draft, IF selectedCard.sectionId = "" THEN "backlog" ELSE selectedCard.sectionId),
           "page")

handleCardDelete(cardId) ==
  /\ CanStart
  /\ cardId \in StoreCardIds
  /\ Issue("deleteCard", cardId, "", NoPayload, "page")

handleSectionCreate(newSectionTitle) ==
  /\ CanStart
  /\ newSectionTitle \in NewTitles
  /\ ids.section + Unanswered("addSection") < 4 * ids.project + MaxNewSections
  /\ Issue("addSection", newSectionTitle, "", NoPayload, "page")

\* handleDeleteSection up to its decision: the section ids it calls
\* deleteSection with.
DeleteSectionCalls(b, sectionId) ==
  LET section == FindFirst(b.sections, WithId(b, sectionId))
  IN IF \E s \in section : s.canDelete THEN {sectionId} ELSE {}

handleDeleteSection(sectionId) ==
  /\ CanStart
  /\ sectionId \in WorkSectionIds
  /\ IF DeleteSectionCalls(board, sectionId) = {}
     THEN Ignore("handleDeleteSection", sectionId, "")
     ELSE \E id \in DeleteSectionCalls(board, sectionId) : Issue("deleteSection", id, "", NoPayload, "page")

handleClearSection(sectionId) ==
  /\ CanStart
  /\ sectionId \in WorkSectionIds
  /\ Issue("clearSection", sectionId, "", NoPayload, "page")

handleDeleteAllSections ==
  /\ CanStart
  /\ Issue("deleteAllSections", "", "", NoPayload, "page")

(***************************************************************************)
(* Index.tsx: the filtered and sorted view of the board.                   *)
(***************************************************************************)
Priorities == {"low", "normal", "high"}
Executors == {"Alice", "Bob"}
SortOrders == {"date", "priority-low-high", "priority-high-low", "priority-normal-first"}

\* const priorityOrder = { low: 1, normal: 2, high: 3 }
priorityOrder(p) == IF p = "low" THEN 1 ELSE IF p = "normal" THEN 2 ELSE 3

\* The compare functions with 'priority-normal-first' comparing like
\* 'priority-low-high'.
Compare_normalLikeLowHigh(sortBy, a, b) ==
  IF sortBy = "date" THEN a.createdAt - b.createdAt
  ELSE IF sortBy = "priority-high-low" THEN priorityOrder(b.priority) - priorityOrder(a.priority)
  ELSE priorityOrder(a.priority) - priorityOrder(b.priority)

\* The compare functions handed to Array.prototype.sort, by sortBy.
Compare(sortBy, a, b) ==
  IF sortBy = "date" THEN a.createdAt - b.createdAt
  ELSE IF sortBy = "priority-low-high" THEN priorityOrder(a.priority) - priorityOrder(b.priority)
  ELSE IF sortBy = "priority-high-low" THEN priorityOrder(b.priority) - priorityOrder(a.priority)
  ELSE IF a.priority = "normal" /\ b.priority # "normal" THEN -1
  ELSE IF a.priority # "normal" /\ b.priority = "normal" THEN 1
  ELSE priorityOrder(a.priority) - priorityOrder(b.priority)

RECURSIVE ArraySort(_, _)
\* Array.prototype.sort(compare): a stable sort.  The last element goes
\* behind the elements of the sorted rest that compare <= 0 with it.
ArraySort(q, sortBy) ==
  IF q = <<>> THEN <<>>
  ELSE LET rest == ArraySort(SubSeq(q, 1, Len(q) - 1), sortBy)
           x == q[Len(q)]
           k == Cardinality({i \in 1..Len(rest) : Compare(sortBy, rest[i], x) <= 0})
       IN SubSeq(rest, 1, k) \o <<x>> \o SubSeq(rest, k + 1, Len(rest))

\* The filter callback that always combines the two matches with &&.
Matches_alwaysAnd(card, f) ==
  LET priorityMatch == f.priorities = {} \/ card.priority \in f.priorities
      executorMatch == f.executors = {} \/ card.executor \in f.executors
  IN priorityMatch /\ executorMatch

\* The filter callback of getFilteredAndSortedCards.
Matches(card, f) ==
  LET priorityMatch == f.priorities = {} \/ card.priority \in f.priorities
      executorMatch == f.executors = {} \/ card.executor \in f.executors
  IN IF f.multiFilter THEN priorityMatch /\ executorMatch ELSE priorityMatch \/ executorMatch

\* The view that sorts the array it was handed when no filter is set.
getFilteredAndSortedCards_sortsInPlace(cards, f) ==
  LET filtered == IF f.priorities # {} \/ f.executors # {}
                  THEN SelectSeq(cards, LAMBDA card : Matches(card, f))
                  ELSE cards
      sorted == ArraySort(filtered, f.sortBy)
  IN [result |-> sorted,
      cards |-> IF f.priorities # {} \/ f.executors # {} THEN cards ELSE sorted]

\* getFilteredAndSortedCards: what it returns, and the array it was handed
\* as it is after the call (sort works in place, on [...cards] or on the
\* array filter() made).
getFilteredAndSortedCards(cards, f) ==
  LET filtered == IF f.priorities # {} \/ f.executors # {}
                  THEN SelectSeq(cards, LAMBDA card : Matches(card, f))
                  ELSE cards
  IN [result |-> ArraySort(filtered, f.sortBy), cards |-> cards]

\* const filteredBoard = { ...board, sections: board.sections.map(...) }
filteredBoard(b, f) ==
  [b EXCEPT !.sections = [i \in 1..Len(@) |->
     [@[i] EXCEPT !.cards = getFilteredAndSortedCards(@, f).result]]]

\* The Board Store after the page has rendered with filters f.
Rendered(b, f) ==
  [b EXCEPT !.sections = [i \in 1..Len(@) |->
     [@[i] EXCEPT !.cards = getFilteredAndSortedCards(@, f).cards]]]

\* A change of the filter state re-renders the page, which evaluates the view.
SetFilters(f) ==
  /\ PageOpen
  /\ filters' = f
  /\ board' = Rendered(board, f)
  /\ UNCHANGED <<accounts, localStorage, route, prisma, ids, loaded, pathname, calls, last, ops, tile>>

togglePriority(priority) ==
  /\ priority \in Priorities
  /\ SetFilters([filters EXCEPT !.priorities = IF priority \in @ THEN @ \ {priority} ELSE @ \cup {priority}])

\* The executors the filter panel offers: those of the cards on the board.
availableExecutors(b) == {c.executor : c \in StoreCardsOf(b)} \ {""}

toggleExecutor(executor) ==
  /\ executor \in availableExecutors(board)
  /\ SetFilters([filters EXCEPT !.executors = IF executor \in @ THEN @ \ {executor} ELSE @ \cup {executor}])

\* updateFilter({ multiFilter: !!checked })
updateMultiFilter(checked) ==
  /\ checked \in BOOLEAN
  /\ checked # filters.multiFilter
  /\ SetFilters([filters EXCEPT !.multiFilter = checked])

\* updateFilter({ sortBy: value })
updateSortBy(value) ==
  /\ value \in SortOrders
  /\ value # filters.sortBy
  /\ SetFilters([filters EXCEPT !.sortBy = value])

clearFilters ==
  /\ filters # NoFilters
  /\ SetFilters(NoFilters)

\* The boards the view is evaluated on: a loaded board of project p1 whose
\* Backlog and To Do sections hold up to MaxViewCards cards of any priority
\* and executor, the newest card first (cards a move has appended are not
\* in the order of their creation).
ViewCard(j, kind, createdAt, sectionId) ==
  [id |-> CardIdPool[j], title |-> "T", description |-> "", priority |-> kind[1],
   executor |-> kind[2], comments |-> <<>>, createdAt |-> createdAt, sectionId |-> sectionId,
   assignees |-> <<>>]

ViewKinds(n) == [1..n -> Priorities \X Executors]

ViewBoard(n, kinds, split) ==
  LET sectionOf(j) == IF j <= split THEN SectionIdPool[1] ELSE SectionIdPool[2]
      cards == [j \in 1..n |-> ViewCard(j, kinds[j], n + 1 - j, sectionOf(j))]
  IN [id |-> ProjectIdPool[1], title |-> ProjectIdPool[1],
      sections |-> << [id |-> SectionIdPool[1], title |-> "Backlog", canDelete |-> FALSE, cards |-> SubSeq(cards, 1, split)],
                      [id |-> SectionIdPool[4], title |-> "Done", canDelete |-> TRUE, cards |-> <<>>],
                      [id |-> SectionIdPool[3], title |-> "Review", canDelete |-> TRUE, cards |-> <<>>],
                      [id |-> SectionIdPool[2], title |-> "To Do", canDelete |-> TRUE, cards |-> SubSeq(cards, split + 1, n)] >>]

\* The rows of the database behind such a board.
ViewRows(b) ==
  [project |-> {b.id},
   section |-> SeedSections(0, b.id),
   card |-> { [id |-> c.id, title |-> c.title, description |-> c.description, priority |-> c.priority,
               executor |-> c.executor, createdAt |-> c.createdAt, sectionId |-> c.sectionId,
               assignees |-> <<>>] : c \in StoreCardsOf(b) },
   comment |-> {}]

ViewInit ==
  \E n \in 0..MaxViewCards : \E kinds \in ViewKinds(n) : \E split \in 0..n :
    /\ board = ViewBoard(n, kinds, split)
    /\ prisma = ViewRows(board)
    /\ ids = [project |-> 1, section |-> 4, card |-> n, comment |-> 0]
    /\ loaded = TRUE
    /\ pathname = ProjectIdPool[1]
    /\ calls = <<>>
    /\ last = Event("none", "", "", "")
    /\ ops = 0
    /\ tile = NoTile
    /\ filters = NoFilters
  /\ accounts = SignedUp
  /\ localStorage = NoStorage
  /\ route = "/"

ViewNext ==
  \/ \E p \in Priorities : togglePriority(p)
  \/ \E e \in Executors : toggleExecutor(e)
  \/ \E checked \in BOOLEAN : updateMultiFilter(checked)
  \/ \E value \in SortOrders : updateSortBy(value)
  \/ clearFilters

\* The filter panel at work on a loaded board.
ViewSpec == ViewInit /\ [][ViewNext]_vars

(***************************************************************************)
(* Callers of the hook other than the board page's handlers.               *)
(***************************************************************************)
\* deleteSection called without the page's canDelete check.
CallDeleteSection(sectionId) ==
  /\ CanStart
  /\ sectionId \in StoreSectionIds
  /\ \E s \in Range(board.sections) : s.id = sectionId /\ ~s.canDelete
  /\ Issue("deleteSection", sectionId, "", NoPayload, "hook")

\* BoardSection renders a TaskCard for a card of the page's board; the tile
\* calls useBoardData() itself, and the mount effect of that instance starts
\* its own load.
MountTaskCard(cardId) ==
  /\ PageOpen
  /\ tile.card = ""
  /\ cardId \in StoreCardIds
  /\ Len(calls) < MaxCalls
  /\ tile' = [NoTile EXCEPT !.card = cardId]
  /\ calls' = Append(calls, Call("load", getProjectId, "", "", NoPayload, "tile"))
  /\ UNCHANGED <<accounts, localStorage, route, filters, prisma, ids, board, loaded, pathname, last, ops>>

\* TaskCard: the "Assign" button of the tile, disabled={!!busy}, opens and
\* closes the list of users.
TogglePicker ==
  /\ PageOpen
  /\ tile.card # ""
  /\ tile.busy = ""
  /\ tile' = [tile EXCEPT !.open = ~@]
  /\ UNCHANGED <<accounts, localStorage, route, filters, prisma, ids, board, loaded, pathname, calls, last, ops>>

\* card.assignees ?? [] of the card object the page hands to the tile.
AssignedIds(c) ==
  IF "assignees" \in DOMAIN c THEN {c.assignees[i].id : i \in 1..Len(c.assignees)} ELSE {}

\* TaskCard: a click on a user of the picker.  isAssigned comes from the card
\* prop; the call goes to the tile's own hook instance.
TaskCardPick(userId) ==
  /\ PageOpen
  /\ tile.card # ""
  /\ tile.open
  /\ Len(tile.picks) < MaxPicks
  /\ Len(calls) < MaxCalls
  /\ userId \in UserIds
  /\ \E card \in StoreCards :
        /\ card.id = tile.card
        /\ LET isAssigned == userId \in AssignedIds(card)
               op == IF isAssigned THEN "unassignUser" ELSE "assignUser"
           IN /\ calls' = Append(calls, Call(op, getProjectId, card.id, userId, NoPayload, "tile"))
              /\ last' = Event("issued", op, "", "")
              /\ tile' = [tile EXCEPT !.picks = Append(@, op), !.busy = userId]
  /\ UNCHANGED <<accounts, localStorage, route, filters, prisma, ids, board, loaded, pathname, ops>>

\* CardModal.handleAddComment: POST .../comments; the answer goes to the
\* modal's own comment list, not to the Board Store.
handleAddComment(cardId, userId) ==
  /\ PageOpen
  /\ cardId \in StoreCardIds
  /\ userId \in Sessions
  /\ ids.comment < MaxComments
  /\ \E out \in PostComment(prisma, ids, getProjectId, cardId, userId, "hi") :
        prisma' = out.db /\ ids' = out.ids
  /\ UNCHANGED <<accounts, localStorage, route, filters, tile, board, loaded, pathname, calls, last, ops>>

\* What the caller of a comment request sees of its response.
StatusText(res) ==
  IF res.ok THEN "ok"
  ELSE IF res.status = 403 THEN "forbidden"
  ELSE IF res.status = 404 THEN "not found"
  ELSE IF res.status = 401 THEN "unauthorized"
  ELSE "bad request"

\* The ids of the comments a card view may still list.
ListedCommentIds == {CommentIdPool[j] : j \in 1..ids.comment}

\* CardView: the Save button of a comment being edited; the request carries
\* the token of the signed-in user ("" when nobody is signed in).
handleEditComment(commentId, userId, text) ==
  /\ PageOpen
  /\ commentId \in ListedCommentIds
  /\ userId \in Sessions \cup {""}
  /\ text # ""
  /\ \E out \in PutComment(prisma, ids, getProjectId, commentId, userId, text) :
        /\ prisma' = out.db /\ ids' = out.ids
        /\ last' = Event(StatusText(out.res), "editComment", commentId, userId)
  /\ UNCHANGED <<accounts, localStorage, route, filters, tile, board, loaded, pathname, calls, ops>>

\* CardModal.handleDeleteComment, and the Delete button of CardView.
handleDeleteComment(commentId, userId) ==
  /\ PageOpen
  /\ commentId \in ListedCommentIds
  /\ userId \in Sessions \cup {""}
  /\ \E out \in DeleteCommentRoute(prisma, ids, getProjectId, commentId, userId) :
        /\ prisma' = out.db /\ ids' = out.ids
        /\ last' = Event(StatusText(out.res), "deleteComment", commentId, userId)
  /\ UNCHANGED <<accounts, localStorage, route, filters, tile, board, loaded, pathname, calls, ops>>

(***************************************************************************)
(* The server answers a call; the network loses one.                       *)
(***************************************************************************)
Route(db, n, call) ==
  IF call.op = "load" \/ call.stage = 2 THEN GetBoard(db, n, call.projectId)
  ELSE IF call.op = "addSection" THEN PostSection(db, n, call.projectId, call.a)
  ELSE IF call.op = "deleteSection" THEN DeleteSectionRoute(db, n, call.projectId, call.a)
  ELSE IF call.op = "clearSection" THEN ClearSectionRoute(db, n, call.projectId, call.a)
  ELSE IF call.op = "deleteAllSections" THEN DeleteAllSectionsRoute(db, n, call.projectId)
  ELSE IF call.op = "addCard" THEN PostCard(db, n, call.projectId, call.a, call.payload)
  ELSE IF call.op = "updateCard" THEN PutCard(db, n, call.projectId, call.a, call.payload)
  ELSE IF call.op = "deleteCard" THEN DeleteCardRoute(db, n, call.projectId, call.a)
  ELSE IF call.op = "moveCard" THEN MoveCardRoute(db, n, call.projectId, call.a, call.b)
  ELSE IF call.op = "assignUser" THEN PostAssignee(db, n, call.projectId, call.a, call.b)
  ELSE DeleteAssignee(db, n, call.projectId, call.a, call.b)

ServerAnswer(i) ==
  /\ i \in 1..Len(calls)
  /\ ~calls[i].answered
  /\ \E out \in Route(prisma, ids, calls[i]) :
        /\ prisma' = out.db
        /\ ids' = out.ids
        /\ calls' = [calls EXCEPT ![i].answered = TRUE, ![i].res = out.res]
  /\ UNCHANGED <<accounts, localStorage, route, filters, tile, board, loaded, pathname, last, ops>>

\* The request never reaches the server, or its response never reaches the
\* client: fetch rejects.
NetworkFail(i) ==
  /\ i \in 1..Len(calls)
  /\ calls[i].res.kind # "threw"
  /\ calls' = [calls EXCEPT ![i].answered = TRUE, ![i].res = Threw]
  /\ UNCHANGED <<accounts, localStorage, route, filters, tile, prisma, ids, board, loaded, pathname, last, ops>>

(***************************************************************************)
(* A response lands: the continuation of the hook operation runs.          *)
(***************************************************************************)
Continue(prev, call) ==
  IF call.op = "addSection" THEN addSection(prev, call.res)
  ELSE IF call.op = "deleteSection" THEN deleteSection(prev, call.stage, call.res)
  ELSE IF call.op = "clearSection" THEN clearSection(prev, call.stage, call.res)
  ELSE IF call.op = "deleteAllSections" THEN deleteAllSections(prev, call.stage, call.res)
  ELSE IF call.op = "addCard" THEN addCard(prev, call.a, call.res)
  ELSE IF call.op = "updateCard" THEN updateCard(prev, call.a, call.res)
  ELSE IF call.op = "deleteCard" THEN deleteCard(prev, call.a, call.res)
  ELSE IF call.op = "moveCard" THEN moveCard(prev, call.a, call.b, call.res)
  ELSE IF call.op = "assignUser" THEN assignUser(prev, call.a, call.res)
  ELSE unassignUser(prev, call.a, call.res)

LandLoad(i) ==
  /\ i \in 1..Len(calls)
  /\ calls[i].answered
  /\ calls[i].op = "load"
  /\ IF calls[i].origin = "tile"
     THEN /\ tile' = [tile EXCEPT !.board = load(@, calls[i].res), !.loaded = TRUE]
          /\ UNCHANGED <<accounts, localStorage, route, filters, board, loaded>>
     ELSE /\ board' = load(board, calls[i].res)
          /\ loaded' = TRUE
          /\ tile' = tile
  /\ calls' = RemoveAt(calls, i)
  /\ UNCHANGED <<accounts, localStorage, route, filters, prisma, ids, pathname, last, ops>>

Land(i) ==
  /\ i \in 1..Len(calls)
  /\ calls[i].answered
  /\ calls[i].op # "load"
  /\ LET r == Continue(IF calls[i].origin = "tile" THEN tile.board ELSE board, calls[i])
     IN /\ IF calls[i].origin = "tile"
           THEN tile' = [tile EXCEPT !.board = r.board, !.busy = ""] /\ board' = board
           ELSE board' = r.board /\ tile' = tile
        /\ IF r.outcome = "refetch"
           THEN /\ calls' = [calls EXCEPT ![i].stage = 2, ![i].answered = FALSE, ![i].res = NoRes]
                /\ last' = last
           ELSE /\ calls' = RemoveAt(calls, i)
                /\ last' = [Event(r.outcome, calls[i].op, "", "") EXCEPT
                              !.toast = IF calls[i].origin = "tile" THEN TaskCardToast(calls[i].op, r.outcome) ELSE ""]
  /\ UNCHANGED <<accounts, localStorage, route, filters, prisma, ids, loaded, pathname, ops>>

Gesture ==
  \/ \E active \in StoreCardIds, over \in {""} \cup StoreSectionIds \cup StoreCardIds : handleDragEnd(active, over)
  \/ \E s \in StoreSectionIds, d \in NewCardDrafts : handleCardSaveNew(s, d)
  \/ \E c \in StoreCards, d \in EditDrafts : handleCardSaveExisting(c, d)
  \/ \E c \in StoreCardIds : handleCardDelete(c)
  \/ \E t \in NewTitles : handleSectionCreate(t)
  \/ \E s \in StoreSectionIds : handleDeleteSection(s)
  \/ \E s \in StoreSectionIds : handleClearSection(s)
  \/ handleDeleteAllSections
  \/ \E s \in StoreSectionIds : CallDeleteSection(s)
  \/ \E p \in {ProjectIdPool[i] : i \in 1..MaxProjects} \cup {"default"} : SwitchProject(p)

\* What happens in a card tile of the board page.
TileGesture ==
  \/ \E c \in StoreCardIds : MountTaskCard(c)
  \/ TogglePicker
  \/ \E u \in UserIds : TaskCardPick(u)

Environment ==
  \/ CreateProject
  \/ \E p \in {ProjectIdPool[i] : i \in 1..MaxProjects} \cup {"default"} : OpenProject(p)
  \/ \E c \in StoreCardIds, u \in UserIds : handleAddComment(c, u)
  \/ \E i \in 1..MaxCalls : ServerAnswer(i)
  \/ \E i \in 1..MaxCalls : LandLoad(i)
  \/ \E i \in 1..MaxCalls : Land(i)

\* Gestures and responses in any order, over a network that may fail.
Next ==
  \/ Gesture
  \/ Environment
  \/ \E i \in 1..MaxCalls : NetworkFail(i)

Spec == Init /\ [][Next]_vars

\* Overlapping operations over a network that delivers every request and
\* every response.
RaceNext ==
  \/ Gesture
  \/ Environment

RaceSpec == Init /\ [][RaceNext]_vars

\* Sequential use: a gesture is made only when no call is in flight (every
\* operation is awaited before the next is issued).
SeqNext ==
  \/ calls = <<>> /\ Gesture
  \/ Environment
  \/ \E i \in 1..MaxCalls : NetworkFail(i)

SeqSpec == Init /\ [][SeqNext]_vars

\* Sequential use with the event loop running the continuation of every
\* board fetch that has settled.
LiveSpec == SeqSpec /\ WF_vars(\E i \in 1..MaxCalls : LandLoad(i))

\* The board page with a card tile: cards are created and dragged on the
\* page, users are picked in the tile, over a network that delivers every
\* request and every response.
TileNext ==
  \/ \E s \in StoreSectionIds, d \in NewCardDrafts : handleCardSaveNew(s, d)
  \/ \E active \in StoreCardIds, over \in StoreSectionIds : handleDragEnd(active, over)
  \/ TileGesture
  \/ Environment

TileSpec == Init /\ [][TileNext]_vars

\* One user on one board, the page with a card tile, every operation awaited
\* before the next gesture, over a network that delivers every request and
\* every response.
MirrorNext ==
  \/ calls = <<>> /\ \E active \in StoreCardIds, over \in {""} \cup StoreSectionIds \cup StoreCardIds : handleDragEnd(active, over)
  \/ calls = <<>> /\ \E s \in StoreSectionIds, d \in NewCardDrafts : handleCardSaveNew(s, d)
  \/ calls = <<>> /\ \E c \in StoreCards, d \in EditDrafts : handleCardSaveExisting(c, d)
  \/ calls = <<>> /\ \E c \in StoreCardIds : handleCardDelete(c)
  \/ calls = <<>> /\ \E t \in NewTitles : handleSectionCreate(t)
  \/ calls = <<>> /\ \E s \in StoreSectionIds : handleDeleteSection(s)
  \/ calls = <<>> /\ \E s \in StoreSectionIds : handleClearSection(s)
  \/ calls = <<>> /\ handleDeleteAllSections
  \/ calls = <<>> /\ TileGesture
  \/ Environment

MirrorSpec == Init /\ [][MirrorNext]_vars

\* Signed-in users writing, editing and deleting comments on the cards of a
\* board while cards are created, cleared and deleted.
CommentNext ==
  \/ \E s \in StoreSectionIds, d \in NewCardDrafts : handleCardSaveNew(s, d)
  \/ \E c \in StoreCardIds : handleCardDelete(c)
  \/ \E s \in StoreSectionIds : handleClearSection(s)
  \/ \E c \in StoreCardIds, u \in Sessions : handleAddComment(c, u)
  \/ \E id \in ListedCommentIds, u \in Sessions \cup {""} : handleEditComment(id, u, "edited")
  \/ \E id \in ListedCommentIds, u \in Sessions \cup {""} : handleDeleteComment(id, u)
  \/ Environment

CommentSpec == Init /\ [][CommentNext]_vars

(***************************************************************************)
(* Signing in and out.                                                     *)
(***************************************************************************)
\* The emails somebody may type into the login and register forms.
Emails == {UserIdPool[i] : i \in 1..MaxSessions + 1}
Passwords == {"secret-" \o u : u \in Emails} \cup {"short"}

\* jwt.sign({ sub: user.id, ... }): the token of a user ("" is no token).
TokenOf(u) == "jwt-" \o u

\* POST /auth/register: the set of [accounts, res] it may end with.
AuthRegister(db, email, password) ==
  IF password = "short" THEN {[accounts |-> db, res |-> ErrorRes(400)]}
  ELSE IF \E a \in db : a.email = email THEN {[accounts |-> db, res |-> ErrorRes(409)]}
  ELSE {[accounts |-> db \cup {[email |-> email, password |-> password]},
         res |-> [ok |-> TRUE, status |-> 201, kind |-> "auth", user |-> email, token |-> TokenOf(email)]]}

\* POST /auth/login
AuthLogin(db, email, password) ==
  IF password = "short" THEN {[accounts |-> db, res |-> ErrorRes(400)]}
  ELSE IF ~\E a \in db : a.email = email /\ a.password = password THEN {[accounts |-> db, res |-> ErrorRes(401)]}
  ELSE {[accounts |-> db,
         res |-> [ok |-> TRUE, status |-> 200, kind |-> "auth", user |-> email, token |-> TokenOf(email)]]}

\* RequireAuth: localStorage.getItem('auth_token') || localStorage.getItem('token')
RequireAuthToken(storage) == IF storage.auth_token # "" THEN storage.auth_token ELSE storage.token

Public == {"/", "/login", "/register"}
Protected == {"/boards", "/customers", "/project/:projectId", "/card/:cardId", "/project/:projectId/card/:cardId"}

\* The element the router shows for a path: a protected one is replaced by
\* <Navigate to="/login"> when RequireAuth finds no token.
Shown(storage, path) == IF path \in Protected /\ RequireAuthToken(storage) = "" THEN "/login" ELSE path

\* What onSubmit of Login and of Register does with the response.
onSubmit(form, out) ==
  /\ accounts' = out.accounts
  /\ IF out.res.ok
     THEN /\ localStorage' = [localStorage EXCEPT !.token = out.res.token, !.user = out.res.user,
                                                  !.userId = out.res.user]
          /\ route' = Shown(localStorage', "/boards")
          /\ last' = Event("signed in", form, out.res.user, "")
     ELSE /\ UNCHANGED <<localStorage, route>>
          /\ last' = Event("error", form, "", "")
  /\ UNCHANGED <<prisma, ids, board, loaded, pathname, calls, ops, tile, filters>>

\* Login.onSubmit
LoginSubmit(email, password) ==
  /\ route = "/login"
  /\ \E out \in AuthLogin(accounts, email, password) : onSubmit("Login", out)

\* Register.onSubmit
RegisterSubmit(email, password) ==
  /\ route = "/register"
  /\ \E out \in AuthRegister(accounts, email, password) : onSubmit("Register", out)

\* TopNav.logout: the button is rendered when isAuthed.
TopNavLogout ==
  /\ localStorage.auth_token # "" \/ localStorage.token # ""
  /\ localStorage' = NoStorage
  /\ route' = "/login"
  /\ last' = Event("logged out", "TopNav", "", "")
  /\ UNCHANGED <<accounts, prisma, ids, board, loaded, pathname, calls, ops, tile, filters>>

\* Customers.handleLogout
CustomersLogout ==
  /\ route = "/customers"
  /\ localStorage' = [localStorage EXCEPT !.auth_token = ""]
  /\ route' = "/login"
  /\ last' = Event("logged out", "Customers", "", "")
  /\ UNCHANGED <<accounts, prisma, ids, board, loaded, pathname, calls, ops, tile, filters>>

\* A link is followed or an address is typed.
Navigate(path) ==
  /\ path \in Public \cup Protected
  /\ route' = Shown(localStorage, path)
  /\ route' # route
  /\ last' = Event(IF route' = path THEN "shown" ELSE "redirected", "router", path, "")
  /\ UNCHANGED <<accounts, localStorage, prisma, ids, board, loaded, pathname, calls, ops, tile, filters>>

AuthInit == Init

AuthNext ==
  \/ \E e \in Emails, pw \in Passwords : LoginSubmit(e, pw)
  \/ \E e \in Emails, pw \in Passwords : RegisterSubmit(e, pw)
  \/ TopNavLogout
  \/ CustomersLogout
  \/ \E path \in Public \cup Protected : Navigate(path)

AuthSpec == AuthInit /\ [][AuthNext]_vars

(***************************************************************************)
(* Properties.                                                             *)
(***************************************************************************)
CardIdsOf(s) == {c.id : c \in Range(s.cards)}
Occurrences(b, cardId) ==
  LET positions == {<<i, j>> \in (1..Len(b.sections)) \X (1..MaxCards + 4) :
                      j <= Len(b.sections[i].cards) /\ b.sections[i].cards[j].id = cardId}
  IN Cardinality(positions)
SectionOccurrences(b, sectionId) ==
  Cardinality({i \in 1..Len(b.sections) : b.sections[i].id = sectionId})
ServerCardIds == {c.id : c \in prisma.card}

\* The call at position i has been answered and this step runs the last
\* continuation of its operation.
Settles(i) ==
  /\ i \in 1..Len(calls)
  /\ calls[i].answered
  /\ calls[i].op # "load"
  /\ calls' = RemoveAt(calls, i)
  /\ last'.ev \in {"resolved", "rejected"}
  /\ ops' = ops

C2_UniqueIds ==
  /\ \A id \in StoreCardIds : Occurrences(board, id) = 1
  /\ \A id \in StoreSectionIds : SectionOccurrences(board, id) = 1

\* C3: once every in-flight request has completed, the Board Store contains
\* no card that no longer exists on the server.
C3_NoGhostCards == calls = <<>> => StoreCardIds \subseteq ServerCardIds

CardsOfResponse(prev, call) ==
  LET res == call.res IN
  IF res.kind = "board" THEN UNION {Range(reviveBoardDates(res.board).sections[i].cards) : i \in 1..Len(res.board.sections)}
  ELSE IF res.kind = "created" THEN {[res.card EXCEPT !.createdAt = NewDate(@)]}
  ELSE IF res.kind = "card" THEN {ReviveCard(res.card)}
  ELSE IF res.kind = "assignees"
       THEN {c \in UNION {Range(SetAssignees(prev, call.a, res.assignees).sections[i].cards) : i \in 1..Len(prev.sections)} : c.id = call.a}
  ELSE {}

C6_MoveNoOp ==
  \A active \in StoreCardIds : \A s \in Range(board.sections) :
     active \in CardIdsOf(s) => DragEndCalls(board, active, s.id) = {}

\* C7: a drag that ends over nothing, or over a target whose id is not the id
\* of a section of the Board Store, issues no remote call and leaves the Board
\* Store unchanged.
C7_InvalidTarget ==
  /\ [](\A active \in StoreCardIds : \A over \in {""} \cup (StoreCardIds \ StoreSectionIds) :
          DragEndCalls(board, active, over) = {})
  /\ [][(last'.ev = "ignored" /\ ops' # ops) => (calls' = calls /\ board' = board /\ prisma' = prisma)]_vars

\* A drag of a card has ended over another card, or over nothing, and was ignored.
C7_Witness ==
  /\ last.ev = "ignored" /\ last.op = "handleDragEnd"
  /\ last.a \in StoreCardIds
  /\ last.b \in {""} \cup (StoreCardIds \ StoreSectionIds)

NonDeletable(db, sectionId) == \E s \in db.section : s.id = sectionId /\ ~s.canDelete

\* C8: the board page's delete handler never issues deleteSection for a
\* section whose canDelete is false, and the server rejects a delete request
\* for such a section with an error (400, or 404 when the request names
\* another project), deleting no section, card or comment.
C8_BacklogImmunity ==
  /\ [](\A s \in Range(board.sections) : ~s.canDelete => DeleteSectionCalls(board, s.id) = {})
  /\ [](\A i \in 1..Len(calls) :
          (calls[i].op = "deleteSection" /\ calls[i].origin = "page" /\ calls[i].stage = 1)
             => ~NonDeletable(prisma, calls[i].a))
  /\ [][\A i \in 1..Len(calls) :
          ( /\ calls[i].op = "deleteSection" /\ calls[i].stage = 1 /\ ~calls[i].answered
            /\ NonDeletable(prisma, calls[i].a)
            /\ Len(calls') = Len(calls) /\ calls'[i].answered /\ calls'[i].res.kind # "threw" )
          => /\ prisma' = prisma /\ ~calls'[i].res.ok
             /\ calls'[i].res.status =
                  IF findSectionById(prisma, calls[i].projectId, calls[i].a) = {} THEN 404 ELSE 400]_vars

\* The server has refused to delete the Backlog section of the open project.
C8_Witness ==
  \E i \in 1..Len(calls) :
     /\ calls[i].op = "deleteSection" /\ calls[i].answered /\ calls[i].res.status = 400
     /\ NonDeletable(prisma, calls[i].a)

\* C9: every project of the server has exactly one section with
\* canDelete = false, the Backlog section, and no step removes it.
C9_BacklogExists ==
  /\ [](\A p \in prisma.project :
          /\ Cardinality({s \in prisma.section : s.projectId = p /\ ~s.canDelete}) = 1
          /\ \A s \in prisma.section : (s.projectId = p /\ ~s.canDelete) => s.title = "Backlog")
  /\ [][\A s \in prisma.section : ~s.canDelete => s \in prisma'.section]_vars

\* deleteAllSections has succeeded on the server: only Backlog is left.
C9_Witness ==
  /\ last.ev = "resolved" /\ last.op = "deleteAllSections"
  /\ prisma.project # {}
  /\ Cardinality(prisma.section) = 1

Last(q) == q[Len(q)]
WithoutId(q, cardId) == SelectSeq(q, LAMBDA c : c.id # cardId)

\* C10: when a moveCard(id, target) succeeds and target is a section of the
\* Board Store, the card then occurs in no other section, it is the last
\* element of target's sequence, its fields are those of the card object the
\* server returned, and the other cards of every section keep their order.
C10_MoveCardEffect ==
  [][\A i \in 1..MaxCalls :
       ( /\ Settles(i) /\ calls[i].op = "moveCard" /\ calls[i].res.ok
         /\ calls[i].b \in StoreSectionIds )
       => LET id == calls[i].a
              target == calls[i].b
              moved == calls[i].res.card
          IN /\ Len(board'.sections) = Len(board.sections)
             /\ \A k \in 1..Len(board.sections) :
                  LET before == board.sections[k]
                      after == board'.sections[k]
                  IN /\ after.id = before.id
                     /\ WithoutId(after.cards, id) = WithoutId(before.cards, id)
                     /\ after.id # target => id \notin CardIdsOf(after)
                     /\ after.id = target =>
                          /\ after.cards # <<>>
                          /\ Len(after.cards) = Len(WithoutId(before.cards, id)) + 1
                          /\ LET c == Last(after.cards)
                             IN /\ c.id = id /\ c.id = moved.id
                                /\ c.title = moved.title /\ c.description = moved.description
                                /\ c.priority = moved.priority /\ c.executor = moved.executor
                                /\ c.sectionId = moved.sectionId /\ c.sectionId = target
                                /\ c.assignees = moved.assignees
                                /\ c.createdAt = NewDate(moved.createdAt)]_vars

\* A move has put an older card behind a newer one of the target section.
C10_Witness ==
  /\ last.ev = "resolved" /\ last.op = "moveCard"
  /\ \E s \in Range(board.sections) :
        /\ Len(s.cards) >= 2
        /\ Last(s.cards).createdAt < s.cards[1].createdAt

\* C11: when a successful moveCard response is merged and the destination
\* section id is not the id of a section of the Board Store, the Board Store
\* is left unchanged (the card stays in the section that held it).
C11_UnresolvedDestination ==
  [][\A i \in 1..MaxCalls :
       ( /\ Settles(i) /\ calls[i].op = "moveCard" /\ calls[i].origin # "tile"
         /\ calls[i].res.ok /\ calls[i].b \notin StoreSectionIds )
       => board' = board]_vars

\* The call at position i is the request of operation op, and this step is
\* the server answering it with success.
Served(i, op) ==
  /\ i \in 1..Len(calls)
  /\ calls[i].op = op /\ calls[i].stage = 1 /\ ~calls[i].answered
  /\ Len(calls') = Len(calls)
  /\ calls'[i].answered /\ calls'[i].res.ok

\* The section of project projectId that cannot be deleted.
BacklogOf(db, projectId) == {s.id : s \in {s \in db.section : s.projectId = projectId /\ ~s.canDelete}}

\* C12: when the server has carried out deleteSection(id) for a deletable
\* section, the section no longer exists, no card has been deleted, and every
\* card the section held is in the Backlog section of the project.
C12_DeleteSectionRelocates ==
  [][\A i \in 1..MaxCalls :
       Served(i, "deleteSection")
       => /\ \A s \in prisma'.section : s.id # calls[i].a
          /\ {c.id : c \in prisma'.card} = {c.id : c \in prisma.card}
          /\ \A c \in prisma.card : c.sectionId = calls[i].a =>
                \E moved \in prisma'.card : moved.id = c.id /\ moved.sectionId \in BacklogOf(prisma', calls[i].projectId)]_vars

\* C13: when the server has carried out deleteAllSections, the project has no
\* section with canDelete = true, its non-deletable Backlog section remains,
\* and every card a removed section held still exists and is in the
\* non-deletable Backlog section.
C13_DeleteAllLosesNoCard ==
  [][\A i \in 1..MaxCalls :
       Served(i, "deleteAllSections")
       => LET p == calls[i].projectId
              removed == {s.id : s \in {s \in prisma.section : s.projectId = p /\ s.canDelete}}
          IN /\ \A s \in prisma'.section : s.projectId = p => ~s.canDelete
             /\ BacklogOf(prisma', p) = BacklogOf(prisma, p)
             /\ BacklogOf(prisma', p) # {}
             /\ \A c \in prisma.card : c.sectionId \in removed =>
                   \E kept \in prisma'.card : kept.id = c.id /\ kept.sectionId \in BacklogOf(prisma', p)]_vars

TileCards == StoreCardsOf(tile.board)
\* c.assignees ?? []
AssigneesOf(c) == IF "assignees" \in DOMAIN c THEN c.assignees ELSE <<>>
Times(q, x) == Cardinality({i \in 1..Len(q) : q[i] = x})

\* The call at position i is an assignUser or unassignUser of a card tile and
\* this step merges its successful response.
AssignmentLands(i) ==
  /\ Settles(i) /\ calls[i].origin = "tile"
  /\ calls[i].op \in {"assignUser", "unassignUser"}
  /\ calls[i].res.ok

\* C14: however often a user is assigned to a card, the server holds the user
\* at most once for the card and answers an assignUser with a list that has
\* the user exactly once; the store of the hook instance that made the call
\* then holds exactly the list of the response for the card.
C14_AssignIdempotent ==
  /\ [](\A c \in prisma.card : \A u \in UserIds : Times(c.assignees, u) <= 1)
  /\ [](\A i \in 1..Len(calls) :
          (calls[i].op = "assignUser" /\ calls[i].answered /\ calls[i].res.ok)
             => Times(calls[i].res.assignees, UserLite(calls[i].b)) = 1)
  /\ [][\A i \in 1..MaxCalls :
          AssignmentLands(i) =>
             \A c \in StoreCardsOf(tile'.board) : c.id = calls[i].a => AssigneesOf(c) = calls[i].res.assignees]_vars

\* The tile has assigned the same user twice; server and tile store hold the
\* user once for the card.
C14_Witness ==
  /\ tile.picks = <<"assignUser", "assignUser">>
  /\ calls = <<>>
  /\ last.ev = "resolved" /\ last.op = "assignUser"
  /\ \E c \in TileCards : c.id = tile.card /\ Len(AssigneesOf(c)) = 1
  /\ \E c \in prisma.card : c.id = tile.card /\ Len(c.assignees) = 1

\* C15: when the response of an assignUser or unassignUser lands, in whatever
\* order with the responses of other calls, the card's assignees in the store
\* of the hook instance become the list that response carries, and every
\* other card of the store keeps its assignees.
C15_LastResponseWins ==
  [][\A i \in 1..MaxCalls :
       AssignmentLands(i) =>
          /\ Len(tile'.board.sections) = Len(tile.board.sections)
          /\ \A k \in 1..Len(tile.board.sections) :
               LET before == tile.board.sections[k].cards
                   after == tile'.board.sections[k].cards
               IN /\ Len(after) = Len(before)
                  /\ \A j \in 1..Len(before) :
                       /\ after[j].id = before[j].id
                       /\ after[j].id = calls[i].a => AssigneesOf(after[j]) = calls[i].res.assignees
                       /\ after[j].id # calls[i].a => after[j] = before[j]]_vars

\* An assignUser and an unassignUser of the same card overlapped and the
\* response of the first landed last: the tile's store shows the user the
\* server no longer has, beside another card that has no assignee.
C15_Witness ==
  /\ tile.picks = <<"assignUser", "unassignUser">>
  /\ calls = <<>>
  /\ last.ev = "resolved" /\ last.op = "assignUser"
  /\ \E c \in TileCards : c.id = tile.card /\ Len(AssigneesOf(c)) = 1
  /\ \E c \in prisma.card : c.id = tile.card /\ c.assignees = <<>>
  /\ \E c \in TileCards : c.id # tile.card /\ AssigneesOf(c) = <<>>

\* C16: after an assignUser or unassignUser made from a card tile of the board
\* page has succeeded, the board the page renders holds the list of the
\* response for that card.
C16_SingleStore ==
  [][\A i \in 1..MaxCalls :
       AssignmentLands(i) =>
          \A c \in StoreCardsOf(board') : c.id = calls[i].a => AssigneesOf(c) = calls[i].res.assignees]_vars

\* The loads of the board page's hook instance that are in flight.
PageLoads == {i \in 1..Len(calls) : calls[i].op = "load" /\ calls[i].origin = "hook"}

\* C17: while a load of the board of the active project is in flight, the
\* first load and the reload after a change of the active project alike, the
\* store is not reported as loaded.
C17_LoadedFlag ==
  \A i \in PageLoads : calls[i].projectId = pathname => ~loaded

\* C18: when the last outstanding board fetch lands, every fetch having
\* succeeded, the Board Store holds the board of the active project, in
\* whatever order the fetches for the earlier and for the active project
\* landed.
C18_BoardSwitch ==
  [][\A i \in 1..MaxCalls :
       ( /\ i \in PageLoads /\ calls[i].answered /\ calls[i].res.ok
         /\ calls' = <<>> /\ loaded'
         /\ pathname \in prisma.project )
       => board'.id = pathname]_vars

\* C19: the response of a mutation issued for one project is not merged into
\* the Board Store when the store holds the board of another project: it
\* inserts nothing into that board and removes nothing from it.
C19_NoCrossBoardMerge ==
  [][\A i \in 1..MaxCalls :
       ( /\ Settles(i) /\ calls[i].origin # "tile"
         /\ board.id \in prisma.project /\ board.id = pathname
         /\ calls[i].projectId # board.id )
       => board' = board]_vars

\* The first load of the board page has settled without a board: the fetch
\* rejected, or the server answered with an error.
InitialLoadFailed ==
  /\ ~loaded
  /\ \E i \in PageLoads : calls[i].answered /\ ~calls[i].res.ok

\* C20: when the initial board load fails (the fetch rejects, or an error
\* response comes instead of a board), the step that completes it leaves the
\* Board Store as it is, the default skeleton if nothing else was merged,
\* reports no rejection to the page and marks the store loaded; and a failed
\* initial load is always followed by the store being marked loaded.
C20_HydrationFailureDegrades ==
  /\ [](pathname = "" => board = DefaultBoard /\ ~loaded)
  /\ [][\A i \in 1..MaxCalls :
          ( /\ i \in PageLoads /\ ~loaded
            /\ calls[i].answered /\ ~calls[i].res.ok
            /\ calls' = RemoveAt(calls, i) )
          => (board' = board /\ loaded' /\ last' = last)]_vars
  /\ (InitialLoadFailed ~> loaded)

\* The initial load has failed and completed: the store is marked loaded and
\* holds the default skeleton.
C20_Witness ==
  /\ PageOpen /\ loaded /\ ops = 0 /\ calls = <<>>
  /\ board = DefaultBoard
  /\ [i \in 1..4 |-> board.sections[i].title] = <<"Backlog", "To Do", "Review", "Done">>
  /\ \A i \in 1..4 : board.sections[i].cards = <<>> /\ (board.sections[i].canDelete <=> i # 1)

\* The sections of the view beside the sections of the store they derive from.
ViewSections == 1..Len(board.sections)
ViewOf(k) == filteredBoard(board, filters).sections[k].cards
StoreOf(k) == board.sections[k].cards
InP(c) == c.priority \in filters.priorities
InE(c) == c.executor \in filters.executors

\* C21: with a non-empty selected priority set P and a non-empty selected
\* executor set E, the view of a section holds exactly the section's cards
\* with priority in P or executor in E in disjunctive mode, and exactly those
\* with priority in P and executor in E in conjunctive mode.
C21_FilterOrAnd ==
  (filters.priorities # {} /\ filters.executors # {}) =>
     \A k \in ViewSections :
        LET wanted == {c \in Range(StoreOf(k)) : IF filters.multiFilter THEN InP(c) /\ InE(c) ELSE InP(c) \/ InE(c)}
        IN Range(ViewOf(k)) = wanted /\ Len(ViewOf(k)) = Cardinality(wanted)

\* Disjunctive mode with both sets selected, on a section that holds a card
\* matching only the priorities, one matching only the executors and one
\* matching neither.
C21_Witness ==
  /\ filters.priorities # {} /\ filters.executors # {} /\ ~filters.multiFilter
  /\ \E k \in ViewSections :
        /\ \E c \in Range(StoreOf(k)) : InP(c) /\ ~InE(c)
        /\ \E c \in Range(StoreOf(k)) : ~InP(c) /\ InE(c)
        /\ \E c \in Range(StoreOf(k)) : ~InP(c) /\ ~InE(c)
        /\ Len(ViewOf(k)) = 2

\* C22: sorted "normal first", the view of a section is a permutation of the
\* filtered cards in which every normal card precedes every card of another
\* priority and every low card precedes every high card.
C22_NormalFirst ==
  filters.sortBy = "priority-normal-first" =>
     \A k \in ViewSections :
        LET view == ViewOf(k)
            kept == {c \in Range(StoreOf(k)) : (filters.priorities # {} \/ filters.executors # {}) => Matches(c, filters)}
        IN /\ Range(view) = kept /\ Len(view) = Cardinality(kept)
           /\ \A i, j \in 1..Len(view) :
                i < j => /\ ~(view[j].priority = "normal" /\ view[i].priority # "normal")
                         /\ ~(view[j].priority = "low" /\ view[i].priority = "high")

\* A section holding a high, a normal and a low card, in this order, is shown
\* normal first.
C22_Witness ==
  /\ filters.sortBy = "priority-normal-first"
  /\ \E k \in ViewSections :
        /\ [j \in 1..Len(StoreOf(k)) |-> StoreOf(k)[j].priority] = <<"high", "normal", "low">>
        /\ [j \in 1..Len(ViewOf(k)) |-> ViewOf(k)[j].priority] = <<"normal", "low", "high">>

\* C23: evaluating the view, under every filter and sort setting, leaves the
\* card sequence of every section of the Board Store as it was, and every
\* section of the view holds only cards of the same section of the store.
C23_ViewLeavesStore ==
  /\ [][filters' # filters => board' = board]_vars
  /\ [](\A k \in ViewSections :
          /\ filteredBoard(board, filters).sections[k].id = board.sections[k].id
          /\ Range(ViewOf(k)) \subseteq Range(StoreOf(k)))

\* With no filter set and sorted high to low, the view shows three cards of a section in another
\* order than the store holds them.
C23_Witness ==
  /\ filters.priorities = {} /\ filters.executors = {} /\ filters.sortBy = "priority-high-low"
  /\ \E k \in ViewSections : Len(StoreOf(k)) = 3 /\ Len(ViewOf(k)) = 3 /\ ViewOf(k) # StoreOf(k)

\* C29: when exactly one of the selected priority set and the selected
\* executor set is non-empty, the view of a section holds exactly the
\* section's cards that are members of the non-empty set, in disjunctive and
\* in conjunctive mode.
C29_SingleSetFilter ==
  ((filters.priorities = {}) # (filters.executors = {})) =>
     \A k \in ViewSections :
        LET wanted == {c \in Range(StoreOf(k)) : IF filters.priorities # {} THEN InP(c) ELSE InE(c)}
        IN Range(ViewOf(k)) = wanted /\ Len(ViewOf(k)) = Cardinality(wanted)

\* The latest time the server's clock has shown.
Now == ids.card + ids.comment

\* C24: when addCard(sectionId, draft) with title T and priority p succeeds
\* for a section present in the Board Store, that section of the store then
\* holds a card with the id the server assigned, title T, priority p and a
\* valid creation time that is not later than the current time.
C24_AddCardRoundTrip ==
  [][\A i \in 1..MaxCalls :
       ( /\ Settles(i) /\ calls[i].op = "addCard" /\ calls[i].res.ok
         /\ calls[i].a \in StoreSectionIds )
       => \E k \in 1..Len(board'.sections) :
            /\ board'.sections[k].id = calls[i].a
            /\ \E c \in Range(board'.sections[k].cards) :
                 /\ c.id = calls[i].res.card.id
                 /\ c.id \in {CardIdPool[j] : j \in 1..ids.card}
                 /\ c.title = calls[i].payload.title
                 /\ c.priority = calls[i].payload.priority
                 /\ c.createdAt >= 1 /\ c.createdAt <= Now']_vars

\* An addCard has resolved and the store holds the card with the draft's
\* title and priority.
C24_Witness ==
  /\ last.ev = "resolved" /\ last.op = "addCard"
  /\ \E c \in StoreCards : c.title = "T" /\ c.priority = "high" /\ c.createdAt >= 1

\* C25: after a successful mutation every card of the Board Store is held
\* by the section whose id is the card's sectionId; after an updateCard whose
\* response carries a sectionId other than the holding section's, the card
\* is in the returned section and no longer in the previous one.
C25_MembershipFollowsServer ==
  [][\A i \in 1..MaxCalls :
       ( /\ Settles(i) /\ calls[i].origin # "tile" /\ calls[i].res.ok /\ last'.ev = "resolved" )
       => \A k \in 1..Len(board'.sections) : \A c \in Range(board'.sections[k].cards) :
            c.sectionId = board'.sections[k].id]_vars

\* The rows of the server behind the board the store shows.
ServerSectionIds(db, b) == {s.id : s \in {s \in db.section : s.projectId = b.id}}
ServerCardsIn(db, sectionId) == {c \in db.card : c.sectionId = sectionId}

\* The store and the server agree on the section ids and on the card ids of
\* every section.
AgreeOnMembership(b, db) ==
  /\ {b.sections[k].id : k \in 1..Len(b.sections)} = ServerSectionIds(db, b)
  /\ \A k \in 1..Len(b.sections) :
        CardIdsOf(b.sections[k]) = {c.id : c \in ServerCardsIn(db, b.sections[k].id)}

\* The store and the server agree on the assignee set of every card.
AgreeOnAssignees(b, db) ==
  \A c \in StoreCardsOf(b) : \A r \in db.card :
     r.id = c.id => AssignedIds(c) = Range(r.assignees)

\* This step completes an operation on a board that was loaded from the
\* server.
Completes(i) ==
  /\ Settles(i) /\ calls[i].res.ok /\ last'.ev = "resolved"
  /\ board.id \in prisma.project

\* Under sequential use on a loaded board, every completed operation leaves
\* the store and the server agreeing on sections and on the cards of each.
MirrorMembership ==
  [][\A i \in 1..MaxCalls : Completes(i) => AgreeOnMembership(board', prisma')]_vars

\* C26: under sequential use by a single client on a successfully loaded
\* board, after every completed create, update, move, delete, clear or
\* assign operation the Board Store and the server agree on the set of
\* section ids, on the set of card ids of each section and on the assignee
\* set of each card.
C26_MirrorConsistency ==
  [][\A i \in 1..MaxCalls :
       Completes(i) => AgreeOnMembership(board', prisma') /\ AgreeOnAssignees(board', prisma')]_vars

\* The store holds card c as the server holds it.
UpToDate(c) == \E r \in prisma.card : r.id = c.id /\ c = ReviveCard(CardJson(prisma, r))

\* The Board Store after the refetch of a clearSection(id) that succeeded.
StoreAfterClear(id) ==
  /\ \E t \in Range(board'.sections) :
        /\ t.id = id /\ t.cards = <<>>
        /\ \A s \in Range(board.sections) : s.id = id => t.title = s.title /\ t.canDelete = s.canDelete
  /\ \A s \in Range(board.sections) :
        (s.id # id /\ s.id \in ServerSectionIds(prisma, board'))
        => \E t \in Range(board'.sections) :
             /\ t.id = s.id /\ t.title = s.title /\ t.canDelete = s.canDelete
             /\ \A c \in Range(s.cards) : UpToDate(c) => c \in Range(t.cards)
  /\ AgreeOnMembership(board', prisma')

CommentRequest(cm, u) ==
  /\ last' # last
  /\ last'.op \in {"editComment", "deleteComment"}
  /\ last'.a = cm.id /\ last'.b = u

\* C28: an edit or delete of a comment requested by a signed-in user other
\* than its author is answered as forbidden and leaves the comment with its
\* text in place, and no step changes the author of an existing comment.
C28_CommentOwnership ==
  [][/\ \A cm \in prisma.comment : \A u \in Sessions :
          (CommentRequest(cm, u) /\ u # cm.authorId)
          => last'.ev = "forbidden" /\ cm \in prisma'.comment /\ prisma' = prisma
     /\ \A cm \in prisma.comment : \A after \in prisma'.comment :
          after.id = cm.id => after.authorId = cm.authorId]_vars

\* A user who is not the author has asked to edit a comment, which is still
\* there with the text its author wrote.
C28_Witness ==
  /\ last.ev = "forbidden" /\ last.op = "editComment"
  /\ \E cm \in prisma.comment :
        cm.id = last.a /\ cm.authorId # last.b /\ last.b \in Sessions /\ cm.text = "hi"

\* The operations the handlers of the board page start, and their toasts.
PageOps == {"moveCard", "updateCard", "addCard", "deleteCard", "addSection", "deleteSection", "clearSection", "deleteAllSections"}
SuccessToasts == {SuccessToast(op) : op \in PageOps}

\* C30: for every mutation started from the board page, a success
\* notification is shown only by the step in which the operation's promise
\* resolves, and the step in which the promise rejects shows failure
\* feedback.
C30_FeedbackFollowsOutcome ==
  [][/\ (last' # last /\ last'.toast \in SuccessToasts)
          => \E i \in 1..MaxCalls :
               /\ Settles(i) /\ calls[i].origin = "page" /\ last'.ev = "resolved"
               /\ last'.toast = SuccessToast(calls[i].op)
     /\ \A i \in 1..MaxCalls :
          (Settles(i) /\ calls[i].origin = "page" /\ last'.ev = "rejected")
          => last'.toast \notin SuccessToasts \cup {""}]_vars

\* The second half of C30 alone: a rejected promise of a page mutation shows
\* failure feedback.
RejectionShown ==
  [][\A i \in 1..MaxCalls :
       (Settles(i) /\ calls[i].origin = "page" /\ last'.ev = "rejected")
       => last'.toast \notin SuccessToasts \cup {""}]_vars

\* Card a stands before card b in the sequence q.
Before(q, a, b) == \E i, j \in 1..Len(q) : i < j /\ q[i].id = a /\ q[j].id = b

\* Every two cards that a section holds in both stores stand in the same
\* order in both.
OrderKept(before, after) ==
  \A s \in Range(before.sections) : \A t \in Range(after.sections) :
     s.id = t.id =>
       \A a, b \in CardIdsOf(s) \cap CardIdsOf(t) :
          (a # b /\ Before(s.cards, a, b)) => Before(t.cards, a, b)

\* C31: a card added or moved to a section becomes the last element of the
\* section's sequence, and every later step on the Board Store, the board
\* refetches included, keeps the relative order of the cards of a section.
C31_InsertionOrder ==
  [][/\ \A i \in 1..MaxCalls :
          ( /\ Settles(i) /\ calls[i].op \in {"addCard", "moveCard"} /\ calls[i].origin # "tile"
            /\ last'.ev = "resolved"
            /\ (IF calls[i].op = "addCard" THEN calls[i].a ELSE calls[i].b) \in StoreSectionIds )
          => \E t \in Range(board'.sections) :
               /\ t.id = (IF calls[i].op = "addCard" THEN calls[i].a ELSE calls[i].b)
               /\ t.cards # <<>> /\ Last(t.cards).id = calls[i].res.card.id
     /\ OrderKept(board, board')]_vars

\* The ids of the first section of the store that contains the card.
CurrentSectionId(b, cardId) == {s.id : s \in FindFirst(b.sections, Holding(b, cardId))}

\* C32: a drag that ends over a section of the Board Store other than the
\* section found to contain the dragged card issues exactly one moveCard, for
\* the dragged card with the section under the drop point as destination,
\* and no other remote call.
C32_DragToOtherSection ==
  /\ [](\A active \in StoreCardIds : \A over \in StoreSectionIds :
          {over} # CurrentSectionId(board, active)
          => DragEndCalls(board, active, over) = {<<active, over>>})
  /\ [][(last'.ev = "issued" /\ last'.op = "moveCard" /\ ops' # ops)
        => /\ Len(calls') = Len(calls) + 1
           /\ SubSeq(calls', 1, Len(calls)) = calls
           /\ LET c == Last(calls')
              IN /\ c.op = "moveCard" /\ c.stage = 1 /\ ~c.answered
                 /\ c.a \in StoreCardIds /\ c.b \in StoreSectionIds
                 /\ {c.b} # CurrentSectionId(board, c.a)
                 /\ <<c.a, c.b>> \in DragEndCalls(board, c.a, c.b)
           /\ board' = board /\ prisma' = prisma]_vars

\* A drag has just ended over another section than the one holding the
\* card, and its moveCard is the one call in flight.
C32_Witness ==
  /\ last.ev = "issued" /\ last.op = "moveCard"
  /\ Len(calls) = 1 /\ calls[1].op = "moveCard" /\ ~calls[1].answered
  /\ calls[1].b \in StoreSectionIds
  /\ CurrentSectionId(board, calls[1].a) # {} /\ {calls[1].b} # CurrentSectionId(board, calls[1].a)

\* Every comment belongs to an existing card, every card to an existing
\* section and every section to an existing project.
NoOrphans(db) ==
  /\ \A cm \in db.comment : \E c \in db.card : c.id = cm.cardId
  /\ \A c \in db.card : \E s \in db.section : s.id = c.sectionId
  /\ \A s \in db.section : s.projectId \in db.project

\* This step is the server answering the call at position i.
Answers(i) ==
  /\ i \in 1..Len(calls) /\ Len(calls') = Len(calls)
  /\ ~calls[i].answered /\ calls'[i].answered

ProjectOfCard(db, c) == {s.projectId : s \in {s \in db.section : s.id = c.sectionId}}

\* C34: an update, move or delete request addressed to project P changes
\* only cards of sections of P; when the card it names belongs to another
\* project the request is rejected and the card is left as it is; no card
\* ever changes its project.
C34_ProjectScoping ==
  [][/\ \A i \in 1..MaxCalls :
          ( /\ Answers(i) /\ calls[i].stage = 1
            /\ calls[i].op \in {"updateCard", "moveCard", "deleteCard"} )
          => \A c \in prisma.card :
               calls[i].projectId \notin ProjectOfCard(prisma, c)
               => /\ c \in prisma'.card
                  /\ c.id = calls[i].a => ~calls'[i].res.ok
     /\ \A c \in prisma.card : \A after \in prisma'.card :
          after.id = c.id => ProjectOfCard(prisma', after) = ProjectOfCard(prisma, c)]_vars

\* No auth token is left in local storage.
NoToken(storage) == storage.auth_token = "" /\ storage.token = ""

\* C35: after any logout, from the top navigation bar or from the Customers
\* page, no auth token remains in local storage; and while no token is
\* there no protected route is shown.
C35_LogoutEndsSession ==
  /\ [][(last' # last /\ last'.ev = "logged out") => NoToken(localStorage')]_vars
  /\ [](NoToken(localStorage) => route \notin Protected)

\* The assignUser and unassignUser calls of the card tile that are in flight.
TilePicksInFlight == {i \in 1..Len(calls) : calls[i].origin = "tile" /\ calls[i].op \in {"assignUser", "unassignUser"}}

\* A step in which the tile issues an assignUser or unassignUser request.
TilePickIssued == Len(tile'.picks) = Len(tile.picks) + 1

\* A step in which an assignUser or unassignUser request of the tile
\* completes, with success or with failure.
TilePickCompleted ==
  \E i \in TilePicksInFlight : Settles(i)

\* C36: the busy marker of a card tile is set exactly while an assignUser or
\* unassignUser request issued from the tile is in flight; a completing
\* request clears it, nothing else clears it (so it stays set while the
\* request does not complete), and the tile issues no second request while
\* it is set.
C36_PendingMarker ==
  /\ [](tile.busy # "" <=> TilePicksInFlight # {})
  /\ [][ /\ TilePickCompleted => tile'.busy = ""
         /\ (tile.busy # "" /\ tile'.busy = "") => TilePickCompleted
         /\ TilePickIssued => tile.busy = "" ]_vars
====
